---- MODULE Spec2Model ----
(***************************************************************************)
(* A model of knex-utils' schema consolidation (src/lib/consolidate.js):   *)
(* the catalog reader, the normalizer (getType, defaults, index            *)
(* classification, enum inference), the synthesizer (singleTableGenerator) *)
(* and the orchestrator generate().                                        *)
(*                                                                         *)
(* Texts the code inspects character by character (default expressions,    *)
(* constraint definitions, column and table names, indexed column          *)
(* expressions) are sequences of one-character strings, so that the        *)
(* regular expressions and conversions of the code are computed, not       *)
(* assumed.  Texts the code only compares as a whole (raw type names,      *)
(* access methods) are TLA+ strings.                                       *)
(***************************************************************************)
EXTENDS Naturals, Integers, Sequences, FiniteSets, TLC

VARIABLES
    \* ---- one call of getType / defaults on one column (SpecColumn)
    colIn,      \* the columnInfo handed to getType
    cpc,        \* "start" | "typed" | "threw" | "done"
    typeOut,    \* what getType returned (or that it threw)
    defOut,     \* what defaults returned
    \* ---- the catalog, fixed during a behaviour
    catalog,    \* tables, pg_inherits, and each table's rows
    \* ---- generate()
    gpc,        \* where generate() is
    run,        \* number of generate() calls started
    tables,     \* the run's table list (after the filters)
    ppc,        \* per table pipeline: where it is
    mem,        \* per table pipeline: columnsInfo, table.indexes, table.constraints
    \* ---- the file system under migrations/
    fsDir,      \* migrations/tables exists
    fsTables,   \* the files of migrations/tables: table name -> content
    fsAgg,      \* migrations/0_public.js
    \* ---- the logger and the environment
    log,        \* the set of warnings and errors logged
    faults,     \* number of I/O failures so far
    \* ---- history
    hist,       \* what the runs did: aggregator writes, the state a run left
    \* ---- main() and the consolidate command
    exits,      \* the codes of the process.exit calls, in order
    \* ---- lib/index.js
    nodeEnv,    \* process.env.NODE_ENV, "" when unset
    knexfile,   \* the shared knexfile: env -> client and connection.database
    dbs,        \* the databases of the server
    trace,      \* the statements executed and connections destroyed, in order
    lib         \* the call in progress, globalKnex and the calls made

vars == <<colIn, cpc, typeOut, defOut, catalog, gpc, run, tables, ppc, mem,
          fsDir, fsTables, fsAgg, log, faults, hist, exits, nodeEnv, knexfile, dbs,
          trace, lib>>

colVars == <<colIn, cpc, typeOut, defOut>>
genVars == <<catalog, gpc, run, tables, ppc, mem, fsDir, fsTables, fsAgg, faults, hist>>
libVars == <<nodeEnv, knexfile, dbs, trace, lib>>

-----------------------------------------------------------------------------
(* Bounds                                                                  *)

\* columns of a drawn table
MaxCols == 2
\* index rows of a drawn table
MaxIdx == 2
\* constraint rows of a drawn table
MaxCons == 2
\* length of a drawn constraint definition
MaxDefLen == 3
\* tables of a drawn catalog
MaxTables == 2
\* consecutive generate() calls
MaxRuns == 2
\* I/O failures in a behaviour
MaxFaults == 1

-----------------------------------------------------------------------------
(* Characters and texts                                                    *)

Q == "'"
DQ == "\""
BSL == "\\"
NL == "\n"
TAB == "\t"
\* the backtick, which a TLA+ string cannot hold
BT == "BACKTICK"

Digits == {"0", "1", "2", "3", "4", "5", "6", "7", "8", "9"}

Letters ==
    {"a", "b", "c", "d", "e", "f", "g", "h", "i", "j", "k", "l", "m",
     "n", "o", "p", "q", "r", "s", "t", "u", "v", "w", "x", "y", "z",
     "A", "B", "C", "D", "E", "F", "G", "H", "I", "J", "K", "L", "M",
     "N", "O", "P", "Q", "R", "S", "T", "U", "V", "W", "X", "Y", "Z"}

\* \w of a JavaScript regular expression
IsWord(c) == c \in Letters \cup Digits \cup {"_"}

\* \s of a JavaScript regular expression (the characters the model uses)
IsSpace(c) == c \in {" ", TAB, NL}

DigitVal(c) ==
    CASE c = "0" -> 0 [] c = "1" -> 1 [] c = "2" -> 2 [] c = "3" -> 3
      [] c = "4" -> 4 [] c = "5" -> 5 [] c = "6" -> 6 [] c = "7" -> 7
      [] c = "8" -> 8 [] c = "9" -> 9

AllDigits(s) == Len(s) > 0 /\ \A i \in 1..Len(s) : s[i] \in Digits

RECURSIVE TextToNat(_)
TextToNat(s) ==
    IF s = <<>> THEN 0
    ELSE 10 * TextToNat(SubSeq(s, 1, Len(s) - 1)) + DigitVal(s[Len(s)])

\* a test for equality where the code tests for a prefix
SameText(s, p) == s = p

\* String.prototype.startsWith
StartsWith(s, p) == Len(s) >= Len(p) /\ SubSeq(s, 1, Len(p)) = p

\* the index of the first c in s, 0 when there is none
RECURSIVE FirstIndexFrom(_, _, _)
FirstIndexFrom(s, c, i) ==
    IF i > Len(s) THEN 0
    ELSE IF s[i] = c THEN i
    ELSE FirstIndexFrom(s, c, i + 1)

\* str.replace("'", ''): a string pattern replaces the first occurrence only
RemoveFirst(s, c) ==
    LET i == FirstIndexFrom(s, c, 1)
    IN IF i = 0 THEN s ELSE SubSeq(s, 1, i - 1) \o SubSeq(s, i + 1, Len(s))

\* str.replace(/"/g, ''): every occurrence
RECURSIVE RemoveAll(_, _)
RemoveAll(s, c) ==
    IF s = <<>> THEN <<>>
    ELSE IF Head(s) = c THEN RemoveAll(Tail(s), c)
    ELSE <<Head(s)>> \o RemoveAll(Tail(s), c)

\* String.prototype.trim
RECURSIVE TrimLeft(_)
TrimLeft(s) == IF s # <<>> /\ IsSpace(Head(s)) THEN TrimLeft(Tail(s)) ELSE s

RECURSIVE TrimRight(_)
TrimRight(s) ==
    IF s # <<>> /\ IsSpace(s[Len(s)]) THEN TrimRight(SubSeq(s, 1, Len(s) - 1)) ELSE s

Trim(s) == TrimRight(TrimLeft(s))

\* a property name that is an array index: JavaScript lists these first,
\* in ascending numeric order, whatever the order they were added in
IsArrayIndex(s) ==
    /\ AllDigits(s)
    /\ (Len(s) > 1 => s[1] # "0")
    /\ Len(s) <= 9

\* Object.keys of an object whose properties were added in the order `ins`
\* (a sequence of distinct texts)
RECURSIVE SortedIndexKeys(_)
SortedIndexKeys(S) ==
    IF S = {} THEN <<>>
    ELSE LET m == CHOOSE x \in S : \A y \in S : TextToNat(x) <= TextToNat(y)
         IN <<m>> \o SortedIndexKeys(S \ {m})

OwnKeys(ins) ==
    LET NotIdx(k) == ~IsArrayIndex(k)
    IN SortedIndexKeys({ins[i] : i \in {j \in 1..Len(ins) : IsArrayIndex(ins[j])}})
       \o SelectSeq(ins, NotIdx)

-----------------------------------------------------------------------------
(* Rows of the catalog and their annotations                               *)

NoText == <<>>

\* column_default: null, or the text of the expression
NullDefault == [isNull |-> TRUE, text |-> NoText]
Default(t) == [isNull |-> FALSE, text |-> t]

\* columnInfo.constraintCheck: undefined, or the constraint row of the table
NoCheck == [present |-> FALSE, constraint_name |-> NoText, constraint_def |-> NoText,
            constraint_type |-> "", done |-> FALSE]

Check(row) == [present |-> TRUE, constraint_name |-> row.constraint_name,
               constraint_def |-> row.constraint_def,
               constraint_type |-> row.constraint_type, done |-> row.done]

\* columnInfo.index: undefined, or the single-column index row attached to it
NoIndex == [present |-> FALSE, index_name |-> "", single |-> FALSE,
            is_primary |-> FALSE, is_unique |-> FALSE]

\* a column as getColumns returns it: knex's columnInfo (type, nullable,
\* defaultValue) with the information_schema row under detailedInfo
Column(name, type, nullable, def, maxLen, prec, udt, comment) ==
    [column_name |-> name, type |-> type, nullable |-> nullable,
     defaultValue |-> def, character_maximum_length |-> maxLen,
     numeric_precision |-> prec, udt_name |-> udt, comment |-> comment,
     table_name |-> NoText, constraintCheck |-> NoCheck, index |-> NoIndex]

-----------------------------------------------------------------------------
(* getType                                                                 *)

\* the keys of `map`
SupportedTypes ==
    {"integer", "character varying", "jsonb", "timestamp with time zone",
     "text", "boolean", "real", "numeric", "USER-DEFINED"}

\* map[columnInfo.type]; "" stands for undefined
TypeMap(t) ==
    CASE t = "integer" -> "integer"
      [] t = "character varying" -> "string"
      [] t = "jsonb" -> "jsonb"
      [] t = "timestamp with time zone" -> "timestamp"
      [] t = "text" -> "text"
      [] t = "boolean" -> "boolean"
      [] t = "real" -> "float"
      [] t = "numeric" -> "decimal"
      [] t = "USER-DEFINED" -> "specificType"
      [] OTHER -> ""

\* extraParams: nothing, the udt name, a length, a precision, or enum values
NoExtra == [kind |-> "none", num |-> 0, udt |-> "", values |-> <<>>]

\* constraint_def.match(/'\w*'/g): every non-overlapping '<word characters>'
\* from left to right; <<>> stands for null (no match)
RECURSIVE WordEnd(_, _)
WordEnd(s, j) == IF j <= Len(s) /\ IsWord(s[j]) THEN WordEnd(s, j + 1) ELSE j

\* constraint_def.match(/'\w*'/) without the g flag: the first token only
RECURSIVE MatchFirstQuotedWord(_, _)
MatchFirstQuotedWord(s, i) ==
    IF i > Len(s) THEN <<>>
    ELSE IF s[i] # Q THEN MatchFirstQuotedWord(s, i + 1)
    ELSE LET j == WordEnd(s, i + 1)
         IN IF j <= Len(s) /\ s[j] = Q
            THEN <<SubSeq(s, i, j)>>
            ELSE MatchFirstQuotedWord(s, i + 1)

RECURSIVE MatchQuotedWords(_, _)
MatchQuotedWords(s, i) ==
    IF i > Len(s) THEN <<>>
    ELSE IF s[i] # Q THEN MatchQuotedWords(s, i + 1)
    ELSE LET j == WordEnd(s, i + 1)
         IN IF j <= Len(s) /\ s[j] = Q
            THEN <<SubSeq(s, i, j)>> \o MatchQuotedWords(s, j + 1)
            ELSE MatchQuotedWords(s, i + 1)

NoResult == [threw |-> FALSE, error |-> "", type |-> "", extraParams |-> NoExtra,
             consumed |-> FALSE, logged |-> {}]

\* getType(columnInfo): the kind and its extra parameters, or the error
\* thrown; consumed says that the call set constraintCheck.done
getType(columnInfo) ==
    LET type == TypeMap(columnInfo.type)
        ok == [NoResult EXCEPT !.type = type]
        def == columnInfo.defaultValue
        chk == columnInfo.constraintCheck
    IN IF type = ""
       THEN [NoResult EXCEPT !.threw = TRUE, !.error = "invalid type",
                             !.logged = {[kind |-> "invalid-type", table |-> columnInfo.table_name,
                                          column |-> columnInfo.column_name]}]
       ELSE CASE type = "specificType" ->
                    [ok EXCEPT !.extraParams = [NoExtra EXCEPT !.kind = "udt",
                                                               !.udt = columnInfo.udt_name]]
              [] type = "integer" ->
                    IF ~def.isNull /\ def.text # <<>>
                       /\ StartsWith(def.text, <<"n", "e", "x", "t", "v", "a", "l">>)
                    THEN [ok EXCEPT !.type = "increments"]
                    ELSE ok
              [] type = "string" ->
                    IF columnInfo.character_maximum_length # 0
                    THEN [ok EXCEPT !.extraParams =
                              [NoExtra EXCEPT !.kind = "len",
                                              !.num = columnInfo.character_maximum_length]]
                    ELSE ok
              [] type = "decimal" ->
                    IF columnInfo.numeric_precision # 0
                    THEN [ok EXCEPT !.extraParams =
                              [NoExtra EXCEPT !.kind = "precision",
                                              !.num = columnInfo.numeric_precision]]
                    ELSE ok
              [] type = "text" ->
                    IF chk.present /\ ~chk.done
                    THEN LET m == MatchQuotedWords(chk.constraint_def, 1)
                         IN IF m = <<>>
                            \* null.join: TypeError, before done is set
                            THEN [NoResult EXCEPT !.threw = TRUE, !.error = "TypeError"]
                            ELSE [ok EXCEPT !.type = "enum", !.consumed = TRUE,
                                            !.extraParams = [NoExtra EXCEPT !.kind = "enum",
                                                                            !.values = m]]
                    ELSE ok
              [] OTHER -> ok

\* the columnInfo after a call of getType: constraintCheck.done is set
AfterGetType(columnInfo, res) ==
    IF res.consumed
    THEN [columnInfo EXCEPT !.constraintCheck.done = TRUE]
    ELSE columnInfo

-----------------------------------------------------------------------------
(* defaults                                                                *)

NoMarker == [kind |-> "none", text |-> NoText, num |-> 0]

\* defaultValue.match(/^('.*')(::[\w\s]+)?$/): the end of group 1, the
\* longest '...' prefix that the optional cast and the end of the text
\* follow; 0 when the text does not match
CastAt(s, k) ==
    /\ Len(s) >= k + 2
    /\ s[k] = ":" /\ s[k + 1] = ":"
    /\ \A i \in (k + 2)..Len(s) : IsWord(s[i]) \/ IsSpace(s[i])

QuotedEnd(s) ==
    LET ends == {k \in 2..Len(s) :
                    /\ s[1] = Q /\ s[k] = Q
                    /\ \A i \in 2..(k - 1) : s[i] # NL
                    /\ (k = Len(s) \/ CastAt(s, k + 1))}
    IN IF ends = {} THEN 0 ELSE CHOOSE k \in ends : \A j \in ends : j <= k

\* str.replace(/\\'/, "'"): the first backslash-quote becomes a quote
RECURSIVE UnescapeFirst(_)
UnescapeFirst(s) ==
    IF Len(s) < 2 THEN s
    ELSE IF s[1] = BSL /\ s[2] = Q THEN Tail(s)
    ELSE <<Head(s)>> \o UnescapeFirst(Tail(s))

\* Number(text), for texts of the model's alphabet (no '.', exponent, hex or
\* Infinity): white space is trimmed, the empty text is 0, an optionally
\* signed digit sequence is its value, anything else is NaN
NumberOf(s) ==
    LET t == Trim(s)
    IN IF t = <<>> THEN [nan |-> FALSE, val |-> 0]
       ELSE IF AllDigits(t) THEN [nan |-> FALSE, val |-> TextToNat(t)]
       ELSE IF Len(t) > 1 /\ t[1] = "+" /\ AllDigits(Tail(t))
            THEN [nan |-> FALSE, val |-> TextToNat(Tail(t))]
       ELSE IF Len(t) > 1 /\ t[1] = "-" /\ AllDigits(Tail(t))
            THEN [nan |-> FALSE, val |-> 0 - TextToNat(Tail(t))]
       ELSE [nan |-> TRUE, val |-> 0]

\* Str.tryParseJson(text) of sm-utils: JSON.parse, null when it throws; for
\* texts of the model's alphabet the JSON values are true, false, null and
\* the integers without a leading zero or sign '+'
IsJsonInt(t) ==
    \/ AllDigits(t) /\ (Len(t) > 1 => t[1] # "0")
    \/ Len(t) > 1 /\ t[1] = "-" /\ AllDigits(Tail(t)) /\ (Len(t) > 2 => t[2] # "0")

tryParseJson(s) ==
    LET t == Trim(s)
    IN IF t = <<"t", "r", "u", "e">> \/ t = <<"f", "a", "l", "s", "e">> \/ IsJsonInt(t)
       THEN [null |-> FALSE, text |-> t]
       ELSE [null |-> TRUE, text |-> NoText]

DefaultWarning(columnInfo) ==
    [kind |-> "default", table |-> columnInfo.table_name, column |-> columnInfo.column_name]

\* the kinds whose unquoted default is parsed as a number (line 259)
NumberKinds == {"numeric", "integer"}

NoDefaults == [marker |-> NoMarker, logged |-> {}, threw |-> FALSE, consumed |-> FALSE]

\* lines 253-278: defaults once the kind is known (res is what the getType
\* call of line 252 returned)
defaultsOfType(columnInfo, res) ==
    LET text == columnInfo.defaultValue.text
        k == QuotedEnd(text)
        withType == [NoDefaults EXCEPT !.consumed = res.consumed, !.logged = res.logged]
    IN IF res.threw THEN [withType EXCEPT !.threw = TRUE]
       ELSE IF res.type = "increments" THEN withType
       ELSE IF k # 0
            THEN [withType EXCEPT !.marker =
                     [kind |-> "quoted", text |-> UnescapeFirst(SubSeq(text, 1, k)),
                      num |-> 0]]
       ELSE IF res.type \in NumberKinds
            THEN IF NumberOf(RemoveFirst(text, Q)).nan
                 THEN [withType EXCEPT !.logged = @ \cup {DefaultWarning(columnInfo)}]
                 ELSE [withType EXCEPT !.marker =
                          [kind |-> "number", text |-> NoText,
                           num |-> NumberOf(RemoveFirst(text, Q)).val]]
       ELSE IF res.type = "boolean"
            THEN IF tryParseJson(RemoveFirst(text, Q)).null
                 THEN [withType EXCEPT !.logged = @ \cup {DefaultWarning(columnInfo)}]
                 ELSE [withType EXCEPT !.marker =
                          [kind |-> "json", text |-> tryParseJson(RemoveFirst(text, Q)).text,
                           num |-> 0]]
       ELSE withType

\* defaults(columnInfo): the marker (none, a quoted literal, a number, a
\* JSON literal), what was logged, and the effects of its getType call
defaults(columnInfo) ==
    IF columnInfo.defaultValue.isNull THEN NoDefaults
    ELSE defaultsOfType(columnInfo, getType(columnInfo))

-----------------------------------------------------------------------------
(* Inputs: texts                                                           *)

T_T == <<"T">>
T_c == <<"c">>
T_check == <<"_", "c", "h", "e", "c", "k">>

\* `${table.table_name}_${columnName}_check` (line 323)
CheckName(table, column) == table \o <<"_">> \o column \o T_check

D_nextval == <<"n", "e", "x", "t", "v", "a", "l", "(", Q, "s", Q, ")">>
\* nextval('s'::regclass)
D_nextval_cast ==
    <<"n", "e", "x", "t", "v", "a", "l", "(", Q, "s", Q, ":", ":", "r", "e", "g", "c",
      "l", "a", "s", "s", ")">>
D_q0 == <<Q, "0", Q>>
D_q0cast == <<Q, "0", Q, ":", ":", "n", "u", "m", "e", "r", "i", "c">>
D_0 == <<"0">>
D_12 == <<"1", "2">>
D_now == <<"n", "o", "w", "(", ")">>
D_true == <<"t", "r", "u", "e">>
D_qa == <<Q, "a", Q, ":", ":", "t", "e", "x", "t">>
D_abc == <<"a", "b", "c">>
D_esc == <<Q, "a", BSL, Q, "b", Q>>

DefaultPool ==
    {NullDefault} \cup
    {Default(t) : t \in {D_nextval, D_nextval_cast, D_q0, D_q0cast, D_0, D_12, D_now, D_true,
                         D_qa, D_abc, D_esc}}

\* CHECK ((c = ANY (ARRAY['a'::text, 'b'::text, 'c'::text])))
Def_abc ==
    <<"C", "H", "E", "C", "K", " ", "(", "c", " ", "I", "N", " ", "(",
      Q, "a", Q, ",", " ", Q, "b", Q, ",", " ", Q, "c", Q, ")", ")">>
\* CHECK ((status = ANY (ARRAY['new', 'paid'])))
Def_new_paid ==
    <<"C", "H", "E", "C", "K", " ", "(", "s", " ", "I", "N", " ", "(",
      Q, "n", "e", "w", Q, ",", " ", Q, "p", "a", "i", "d", Q, ")", ")">>
\* CHECK ((length(c) > 0)): no quoted literal
Def_len == <<"C", "H", "E", "C", "K", " ", "(", "c", " ", ">", " ", "0", ")">>
\* CHECK (c IN ('a b', 'c')): a literal with a space
Def_space ==
    <<"C", "H", "E", "C", "K", " ", "(", "c", " ", "I", "N", " ", "(",
      Q, "a", " ", "b", Q, ",", " ", Q, "c", Q, ")", ")">>
\* FOREIGN KEY (c) REFERENCES u(id)
Def_fk == <<"F", "K", " ", "(", "c", ")", " ", "u", "(", "i", "d", ")">>

\* every text over the characters quote, word character, space of length 1..n
DefAlphabet == {Q, "a", " "}

RECURSIVE TextsUpTo(_, _)
TextsUpTo(A, n) ==
    IF n = 0 THEN {<<>>}
    ELSE LET shorter == TextsUpTo(A, n - 1)
         IN shorter \cup {Append(t, c) : t \in shorter, c \in A}

DrawnDefs == TextsUpTo(DefAlphabet, MaxDefLen) \ {<<>>}

Constraint(name, def, type) ==
    [constraint_name |-> name, constraint_def |-> def, constraint_type |-> type,
     done |-> FALSE]

-----------------------------------------------------------------------------
(* One column through getType and defaults, as singleTableGenerator calls   *)
(* them (lines 323, 324, 342)                                              *)

AllTypes == SupportedTypes \cup {"bigint", "date"}

ColumnOf(table, type, def, detail, chk) ==
    [Column(T_c, type, FALSE, def, detail.len, detail.prec, detail.udt, NoText)
        EXCEPT !.table_name = table, !.constraintCheck = chk]

Details == {[len |-> 0, prec |-> 0, udt |-> "hstore"],
            [len |-> 255, prec |-> 10, udt |-> "citext"]}

CuratedChecks ==
    {NoCheck} \cup
    {Check(Constraint(CheckName(T_T, T_c), d, "c")) : d \in {Def_abc, Def_len, Def_space}}
    \cup {Check(Constraint(CheckName(T_T, T_c), Def_fk, "f"))}

ColumnInputs ==
    {ColumnOf(T_T, type, def, detail, chk) :
        type \in AllTypes, def \in DefaultPool, detail \in Details, chk \in CuratedChecks}
    \cup
    {ColumnOf(T_T, type, def, [len |-> 0, prec |-> 0, udt |-> "hstore"],
              Check(Constraint(CheckName(T_T, T_c), d, "c"))) :
        type \in {"text", "jsonb"}, def \in {NullDefault, Default(D_qa)}, d \in DrawnDefs}

ColumnIdle ==
    /\ colIn = ColumnOf(T_T, "text", NullDefault, [len |-> 0, prec |-> 0, udt |-> ""], NoCheck)
    /\ cpc = "idle"
    /\ typeOut = NoResult
    /\ defOut = NoDefaults

\* line 324: const {type, extraParams} = getType(columnInfo)
CallGetType ==
    /\ cpc = "start"
    /\ LET res == getType(colIn)
       IN /\ typeOut' = res
          /\ colIn' = AfterGetType(colIn, res)
          /\ cpc' = IF res.threw THEN "threw" ELSE "typed"
          /\ log' = log \cup res.logged
    /\ UNCHANGED defOut
    /\ UNCHANGED genVars
    /\ UNCHANGED <<exits, libVars>>

\* line 342: ${defaults(columnInfo)}
CallDefaults ==
    /\ cpc = "typed"
    /\ LET res == defaults(colIn)
       IN /\ defOut' = res
          /\ colIn' = IF res.consumed THEN [colIn EXCEPT !.constraintCheck.done = TRUE]
                      ELSE colIn
          /\ cpc' = IF res.threw THEN "threw" ELSE "done"
          /\ log' = log \cup res.logged
    /\ UNCHANGED typeOut
    /\ UNCHANGED genVars
    /\ UNCHANGED <<exits, libVars>>

-----------------------------------------------------------------------------
(* JavaScript objects used as maps: the keys in the order they were added   *)
(* and the value of each                                                   *)

EmptyObject == [keys |-> <<>>, at |-> <<>>]

HasKey(obj, k) == \E i \in 1..Len(obj.keys) : obj.keys[i] = k

\* obj[k] = v
Put(obj, k, v) ==
    [keys |-> IF HasKey(obj, k) THEN obj.keys ELSE Append(obj.keys, k),
     at |-> [x \in {obj.keys[i] : i \in 1..Len(obj.keys)} \cup {k} |->
                IF x = k THEN v ELSE obj.at[x]]]

\* the object that assigning obj[keys[i]] = rows[i] for i = 1, 2, ... builds
RECURSIVE PutAll(_, _, _)
PutAll(keys, rows, obj) ==
    IF rows = <<>> THEN obj
    ELSE PutAll(Tail(keys), Tail(rows), Put(obj, Head(keys), Head(rows)))

-----------------------------------------------------------------------------
(* getColumns and the index classification of generate()                   *)

\* getColumns(tableName): knex's columnInfo() adds one property per row, in
\* the order of the rows (the catalog's ordinal order); the detailed row of
\* the same column is attached to it
getColumns(tableName, rows) ==
    PutAll([i \in 1..Len(rows) |-> rows[i].column_name],
           [i \in 1..Len(rows) |-> [rows[i] EXCEPT !.table_name = tableName]],
           EmptyObject)

IndexRow(name, table, cols, unique, primary, type) ==
    [index_name |-> name, table_name |-> table, indexed_columns |-> cols,
     is_unique |-> unique, is_primary |-> primary, index_type |-> type,
     single |-> FALSE, multiple |-> FALSE, error |-> FALSE]

\* col.index = i
Attached(i) ==
    [present |-> TRUE, index_name |-> i.index_name, single |-> i.single,
     is_primary |-> i.is_primary, is_unique |-> i.is_unique]

\* lines 435-449: (await getIndexes(...)).map(i => ...), which marks each
\* row single, multiple or error and attaches a single row to its column
RECURSIVE ClassifyIndexes(_, _)
ClassifyIndexes(rows, st) ==
    IF rows = <<>> THEN st
    ELSE LET i == Head(rows)
             key == RemoveAll(i.indexed_columns[1], DQ)
         IN IF Len(i.indexed_columns) = 1
            THEN IF ~HasKey(st.columnsInfo, key)
                 THEN IF i.index_type = "gin"
                      THEN ClassifyIndexes(Tail(rows), [st EXCEPT !.indexes = Append(@, i)])
                      ELSE ClassifyIndexes(Tail(rows),
                              [st EXCEPT !.indexes = Append(@, [i EXCEPT !.error = TRUE]),
                                         !.logged = @ \cup {[kind |-> "unknown-index",
                                                             table |-> i.table_name,
                                                             column |-> key]}])
                 ELSE LET single == [i EXCEPT !.single = TRUE]
                      IN ClassifyIndexes(Tail(rows),
                              [st EXCEPT !.indexes = Append(@, single),
                                         !.columnsInfo =
                                             Put(@, key, [@.at[key] EXCEPT !.index = Attached(single)])])
            ELSE ClassifyIndexes(Tail(rows),
                    [st EXCEPT !.indexes = Append(@, [i EXCEPT !.multiple = TRUE])])

-----------------------------------------------------------------------------
(* The column markers                                                      *)

\* nullable(columnInfo) without its first line (line 242)
nullableWhateverIndex(columnInfo) ==
    IF columnInfo.nullable THEN "nullable" ELSE "notNullable"

\* nullable(columnInfo)
nullable(columnInfo) ==
    IF columnInfo.index.present /\ columnInfo.index.is_primary THEN ""
    ELSE IF columnInfo.nullable THEN "nullable"
    ELSE "notNullable"

\* indexed(columnInfo)
indexed(columnInfo) ==
    IF ~columnInfo.index.present \/ ~columnInfo.index.single THEN ""
    ELSE IF columnInfo.index.is_primary THEN ""
    ELSE IF columnInfo.index.is_unique THEN "unique"
    ELSE "index"

\* primary(columnInfo)
primary(columnInfo) ==
    IF ~columnInfo.index.present \/ ~columnInfo.index.single THEN FALSE
    ELSE columnInfo.index.is_primary

\* cleanComments(str): each quote and backtick becomes an escaped backtick,
\* each dollar an escaped dollar; the text is split at runs of tabs and
\* newlines and each part trimmed; the artifact concatenates the parts
EscapeChar(c) ==
    IF c \in {BT, Q, DQ} THEN <<BSL, BT>>
    ELSE IF c = "$" THEN <<BSL, "$">>
    ELSE <<c>>

RECURSIVE SplitLines(_, _, _)
SplitLines(s, cur, out) ==
    IF s = <<>> THEN (IF cur = <<>> THEN out ELSE Append(out, cur))
    ELSE IF Head(s) \in {TAB, NL}
         THEN SplitLines(Tail(s), <<>>, IF cur = <<>> THEN out ELSE Append(out, cur))
         ELSE SplitLines(Tail(s), cur \o EscapeChar(Head(s)), out)

cleanComments(str) ==
    LET parts == SplitLines(str, <<>>, <<>>)
    IN [i \in 1..Len(parts) |-> Trim(parts[i])]

\* comment(columnInfo)
comment(columnInfo) ==
    IF columnInfo.comment = NoText THEN <<>> ELSE cleanComments(columnInfo.comment)

-----------------------------------------------------------------------------
(* singleTableGenerator                                                    *)

\* lines 452-455: table.constraints[constraint.constraint_name] = constraint
KeyedByName(rows) ==
    PutAll([i \in 1..Len(rows) |-> rows[i].constraint_name], rows, EmptyObject)

\* table.constraints[name], undefined when the table has no such constraint
LookupCheck(constraints, name) ==
    IF HasKey(constraints, name) THEN Check(constraints.at[name]) ELSE NoCheck

MarkDone(constraints, name) ==
    Put(constraints, name, [constraints.at[name] EXCEPT !.done = TRUE])

\* lines 321-344: one column definition, in the order the code evaluates it:
\* the constraint lookup, getType, the extension/warning, then the markers
\* (primary, nullable, defaults, indexed, comment)
ExtCitext == "CREATE EXTENSION IF NOT EXISTS CITEXT"

\* the statement added for every citext column, as if extrasDone were not kept
ExtensionEachTime(isCitext, done) == isCitext

\* lines 327-330: the statement is added for a citext column unless
\* extrasDone.citext says that it was
ExtensionNeeded(isCitext, done) == isCitext /\ ~done

\* the column definition and the state after it: col1 is the column after
\* getType, t what getType returned, d what defaults returned
GenRendered(table, columnName, col1, t, d, st) ==
    LET name == CheckName(table.table_name, columnName)
        isCitext == t.type = "specificType" /\ t.extraParams.udt = "citext"
        warned == IF t.type = "specificType" /\ ~isCitext
                  THEN {[kind |-> "unknown-udt", table |-> table.table_name,
                         column |-> columnName]}
                  ELSE {}
        text == [name |-> columnName, type |-> t.type, extraParams |-> t.extraParams,
                 primary |-> primary(col1), nullable |-> nullable(col1),
                 defaultTo |-> d.marker, indexed |-> indexed(col1),
                 comment |-> comment(col1)]
    IN IF d.threw
       THEN [st EXCEPT !.threw = TRUE, !.error = "TypeError",
                       !.logged = @ \cup t.logged \cup warned]
       ELSE [st EXCEPT !.constraints = IF d.consumed THEN MarkDone(@, name) ELSE @,
                       !.extrasBefore = IF ExtensionNeeded(isCitext, st.citext)
                                        THEN Append(@, ExtCitext) ELSE @,
                       !.citext = @ \/ isCitext,
                       !.columns = Append(@, text),
                       !.logged = @ \cup t.logged \cup warned \cup d.logged]

\* line 324 on: t is what getType(col0) returned
GenTyped(table, columnName, col0, t, st) ==
    IF t.threw
    THEN [st EXCEPT !.threw = TRUE, !.error = t.error, !.logged = @ \cup t.logged]
    ELSE GenRendered(table, columnName, AfterGetType(col0, t), t,
                     defaults(AfterGetType(col0, t)),
                     [st EXCEPT !.constraints =
                         IF t.consumed
                         THEN MarkDone(@, CheckName(table.table_name, columnName))
                         ELSE @])

\* line 323: columnInfo.constraintCheck = table.constraints[...]
WithCheck(table, columnName, info, constraints) ==
    [info EXCEPT !.constraintCheck =
        LookupCheck(constraints, CheckName(table.table_name, columnName))]

GenChecked(table, columnName, col0, st) ==
    GenTyped(table, columnName, col0, getType(col0), st)

GenColumn(table, columnName, info, st) ==
    GenChecked(table, columnName, WithCheck(table, columnName, info, st.constraints), st)

\* Object.keys(columnsInfo).map(...)
RECURSIVE GenColumns(_, _, _, _)
GenColumns(table, columnsInfo, keys, st) ==
    IF keys = <<>> \/ st.threw THEN st
    ELSE GenColumns(table, columnsInfo, Tail(keys),
                    GenColumn(table, Head(keys), columnsInfo.at[Head(keys)], st))

StripQuotes(cols) == [i \in 1..Len(cols) |-> RemoveAll(cols[i], DQ)]

\* lines 346-375: table.indexes.filter(i => !i.single).map(...)
RECURSIVE GenIndexes(_, _)
GenIndexes(rows, st) ==
    IF rows = <<>> THEN st
    ELSE LET i == Head(rows)
             stmt(kind) == [kind |-> kind, index_name |-> i.index_name,
                            columns |-> StripQuotes(i.indexed_columns)]
         IN IF i.single THEN GenIndexes(Tail(rows), st)
            ELSE IF i.multiple
            THEN GenIndexes(Tail(rows),
                    [st EXCEPT !.indexes =
                        Append(@, IF i.is_primary THEN stmt("primary")
                                  ELSE IF i.is_unique THEN stmt("unique")
                                  ELSE stmt("index"))])
            ELSE IF i.index_type = "gin"
            THEN GenIndexes(Tail(rows),
                    [st EXCEPT !.extrasAfter =
                        Append(@, [kind |-> "CREATE INDEX USING GIN", name |-> i.index_name,
                                   table |-> i.table_name, body |-> i.indexed_columns])])
            ELSE GenIndexes(Tail(rows),
                    [st EXCEPT !.logged = @ \cup {[kind |-> "unknown-index-type",
                                                   table |-> i.table_name,
                                                   column |-> <<>>]}])

\* the constraint statements without the test of constraint.done (line 381)
RECURSIVE GenConstraintsIgnoringDone(_, _, _)
GenConstraintsIgnoringDone(table, keys, st) ==
    IF keys = <<>> THEN st
    ELSE LET c == st.constraints.at[Head(keys)]
         IN IF c.constraint_type = "c"
            THEN GenConstraintsIgnoringDone(table, Tail(keys),
                    [st EXCEPT !.extrasAfter =
                        Append(@, [kind |-> "ALTER TABLE ADD CONSTRAINT",
                                   name |-> c.constraint_name,
                                   table |-> table.table_name,
                                   body |-> <<c.constraint_def>>])])
            ELSE GenConstraintsIgnoringDone(table, Tail(keys), st)

\* lines 377-389: Object.keys(table.constraints).map(...)
RECURSIVE GenConstraints(_, _, _)
GenConstraints(table, keys, st) ==
    IF keys = <<>> THEN st
    ELSE LET c == st.constraints.at[Head(keys)]
         IN IF c.constraint_type = "c"
            THEN IF c.done THEN GenConstraints(table, Tail(keys), st)
                 ELSE GenConstraints(table, Tail(keys),
                        [st EXCEPT !.extrasAfter =
                            Append(@, [kind |-> "ALTER TABLE ADD CONSTRAINT",
                                       name |-> c.constraint_name,
                                       table |-> table.table_name,
                                       body |-> <<c.constraint_def>>])])
            ELSE GenConstraints(table, Tail(keys),
                    [st EXCEPT !.logged = @ \cup {[kind |-> "unknown-constraint-type",
                                                   table |-> table.table_name,
                                                   column |-> c.constraint_name]}])

GenStart(constraints) ==
    [constraints |-> constraints, citext |-> FALSE, extrasBefore |-> <<>>,
     columns |-> <<>>, indexes |-> <<>>, extrasAfter |-> <<>>,
     logged |-> {}, threw |-> FALSE, error |-> ""]

\* the template of lines 394-409, filled
Artifact(table, st) ==
    [threw |-> FALSE, error |-> "", logged |-> st.logged,
     constraints |-> st.constraints,
     artifact |-> [table |-> table.table_name,
                   extrasBefore |-> st.extrasBefore,
                   columns |-> st.columns,
                   indexes |-> st.indexes,
                   comment |-> IF table.comment = NoText THEN <<>>
                               ELSE cleanComments(table.comment),
                   extrasAfter |-> st.extrasAfter]]

GenAllConstraints(table, st) ==
    GenConstraints(table, OwnKeys(st.constraints.keys), st)

\* lines 346-409, after the column definitions
AfterColumns(table, st) ==
    IF st.threw
    THEN [threw |-> TRUE, error |-> st.error, logged |-> st.logged,
          constraints |-> st.constraints, artifact |-> <<>>]
    ELSE Artifact(table, GenAllConstraints(table, GenIndexes(table.indexes, st)))

\* singleTableGenerator(table, columnsInfo): the artifact (its parts in the
\* order of the template), the constraints as the call left them, what it
\* logged, or the error it threw
singleTableGenerator(table, columnsInfo) ==
    AfterColumns(table, GenColumns(table, columnsInfo, OwnKeys(columnsInfo.keys),
                                   GenStart(table.constraints)))

-----------------------------------------------------------------------------
(* The catalog                                                             *)

N_Order == <<"O", "r", "d", "e", "r">>
N_par == <<"p", "a", "r">>
N_kid == <<"k", "i", "d">>
N_bad == <<"b", "a", "d">>
N_old == <<"o", "l", "d">>
N_km == <<"k", "n", "e", "x", "_", "m", "i", "g", "r", "a", "t", "i", "o", "n", "s">>
N_kml == N_km \o <<"_", "l", "o", "c", "k">>
\* a table of the application whose name contains a bookkeeping table's name
N_km_old == N_km \o <<"_", "o", "l", "d">>

C_id == <<"i", "d">>
C_status == <<"s", "t", "a", "t", "u", "s">>
C_total == <<"t", "o", "t", "a", "l">>
C_a == <<"a">>
C_0 == <<"0">>
C_1 == <<"1">>

\* line 5
tablesToIgnore == {N_km, N_kml}

TableRow(name, com) == [table_name |-> name, comment |-> com]

\* one table of the catalog: its row of information_schema.tables, its
\* columns in ordinal order, its rows of pg_index and of pg_constraint
Table(name, cols, idx, cons) ==
    [row |-> TableRow(name, NoText), columns |-> cols, indexes |-> idx, constraints |-> cons]

IdColumn == Column(C_id, "integer", FALSE, Default(D_nextval), 0, 32, "int4", NoText)

\* the table Order of the scenario
OrderTable ==
    Table(N_Order,
          <<IdColumn,
            Column(C_status, "text", FALSE, NullDefault, 0, 0, "text", NoText),
            Column(C_total, "numeric", FALSE, Default(D_q0), 0, 10, "numeric", NoText)>>,
          <<IndexRow("Order_status_total_key", N_Order, <<C_status, C_total>>,
                     TRUE, FALSE, "btree")>>,
          <<Constraint(CheckName(N_Order, C_status), Def_new_paid, "c")>>)

PlainTable(name) ==
    Table(name,
          <<IdColumn>>,
          <<IndexRow("pkey", name, <<C_id>>, TRUE, TRUE, "btree")>>,
          <<>>)

\* a table with a column of a type the map does not know
BadTable ==
    Table(N_bad, <<Column(C_id, "bigint", FALSE, NullDefault, 0, 64, "int8", NoText)>>,
          <<>>, <<>>)

TablePool ==
    <<OrderTable, PlainTable(N_par), PlainTable(N_kid), PlainTable(N_km), PlainTable(N_kml),
      PlainTable(N_km_old), BadTable>>

\* the subsequences of s with at most n elements
RECURSIVE SubSeqsUpTo(_, _)
SubSeqsUpTo(s, n) ==
    IF s = <<>> \/ n = 0 THEN {<<>>}
    ELSE SubSeqsUpTo(Tail(s), n)
         \cup {<<Head(s)>> \o r : r \in SubSeqsUpTo(Tail(s), n - 1)}

Catalog(tbls, inh) == [tables |-> tbls, inherits |-> inh]

Catalogs ==
    {Catalog(tbls, inh) :
        tbls \in SubSeqsUpTo(TablePool, MaxTables) \ {<<>>},
        inh \in {{}, {<<N_par, N_kid>>}}}

TableNames(cat) == {cat.tables[i].row.table_name : i \in 1..Len(cat.tables)}

TableOf(cat, name) ==
    LET i == CHOOSE j \in 1..Len(cat.tables) : cat.tables[j].row.table_name = name
    IN cat.tables[i]

\* s contains sub
Contains(s, sub) ==
    \E i \in 1..(Len(s) - Len(sub) + 1) : SubSeq(s, i, i + Len(sub) - 1) = sub

\* getTables() with a filter on the names that contain an ignored name
getTablesNotContaining(cat) ==
    LET rows == [i \in 1..Len(cat.tables) |-> cat.tables[i].row]
        Kept(r) == \A n \in tablesToIgnore : ~Contains(r.table_name, n)
    IN SelectSeq(rows, Kept)

getTables(cat) ==
    LET rows == [i \in 1..Len(cat.tables) |-> cat.tables[i].row]
        Kept(r) == r.table_name \notin tablesToIgnore
    IN SelectSeq(rows, Kept)

\* isPartitioned(tableName): some row of pg_inherits has it as the parent
\* (WHERE parent.relname = tableName, line 58)
isPartitioned(cat, tableName) == \E pair \in cat.inherits : pair[1] = tableName

-----------------------------------------------------------------------------
(* The file system and the history                                         *)

NoFiles == <<>>

NoAggregator == [exists |-> FALSE, tables |-> <<>>]

\* an artifact an earlier run left, of a table that is gone
OldArtifact ==
    [table |-> N_old, extrasBefore |-> <<>>, columns |-> <<>>, indexes |-> <<>>,
     comment |-> <<>>, extrasAfter |-> <<>>]

\* what migrations/ may hold before the first run
InitialDisks ==
    {[dir |-> FALSE, files |-> NoFiles, agg |-> NoAggregator],
     [dir |-> TRUE, files |-> (N_old :> OldArtifact),
      agg |-> [exists |-> TRUE, tables |-> <<N_old>>]],
     [dir |-> TRUE, files |-> (N_old :> OldArtifact), agg |-> NoAggregator]}

NoSnapshot == [valid |-> FALSE, files |-> NoFiles, agg |-> NoAggregator]

\* failures: the operations that have failed in this run, each with its table
NewRun(first) ==
    [aggStarts |-> 0, aggWrites |-> 0, written |-> {}, failed |-> FALSE,
     swallowed |-> FALSE, failures |-> {}, first |-> first]

NoTable == <<>>

NoMem == [columnsInfo |-> EmptyObject, indexes |-> <<>>, constraints |-> EmptyObject,
          migration |-> <<>>]

Quiescent == \A t \in DOMAIN ppc : ppc[t] \in {"idle", "done", "failed"}

Names(rows) == [i \in 1..Len(rows) |-> rows[i].table_name]

RunTables == {tables[i].table_name : i \in 1..Len(tables)}

-----------------------------------------------------------------------------
(* generate()                                                              *)

\* a call of generate(); the pipelines of an earlier call have ended
StartRun ==
    /\ gpc \in {"idle", "resolved", "rejected"}
    /\ Quiescent
    /\ run < MaxRuns
    /\ run' = run + 1
    /\ gpc' = "getTables"
    /\ tables' = <<>>
    /\ ppc' = [t \in DOMAIN ppc |-> "idle"]
    /\ mem' = [t \in DOMAIN mem |-> NoMem]
    /\ hist' = NewRun(hist.first)
    /\ UNCHANGED <<catalog, fsDir, fsTables, fsAgg, log, faults>>
    /\ UNCHANGED colVars
    /\ UNCHANGED <<exits, libVars>>

\* generate() rejects: an await of it threw
Reject(op) ==
    /\ gpc' = "rejected"
    /\ hist' = [hist EXCEPT !.failed = TRUE, !.failures = @ \cup {<<op, NoTable>>}]

Fault ==
    /\ faults < MaxFaults
    /\ faults' = faults + 1

\* line 416
GetTablesOk ==
    /\ gpc = "getTables"
    /\ tables' = getTables(catalog)
    /\ gpc' = "partition"
    /\ UNCHANGED <<catalog, run, ppc, mem, fsDir, fsTables, fsAgg, log, faults, hist>>
    /\ UNCHANGED colVars
    /\ UNCHANGED <<exits, libVars>>

GetTablesFail ==
    /\ gpc = "getTables"
    /\ Fault
    /\ Reject("getTables")
    /\ UNCHANGED <<catalog, run, tables, ppc, mem, fsDir, fsTables, fsAgg, log>>
    /\ UNCHANGED colVars
    /\ UNCHANGED <<exits, libVars>>

\* lines 418-421: the table list without the tables isPartitioned reports
NotPartitioned(cat, rows) ==
    LET Kept(r) == ~isPartitioned(cat, r.table_name)
    IN SelectSeq(rows, Kept)

PartitionOk ==
    /\ gpc = "partition"
    /\ tables' = NotPartitioned(catalog, tables)
    /\ gpc' = "rmrf"
    /\ UNCHANGED <<catalog, run, ppc, mem, fsDir, fsTables, fsAgg, log, faults, hist>>
    /\ UNCHANGED colVars
    /\ UNCHANGED <<exits, libVars>>

PartitionFail ==
    /\ gpc = "partition"
    /\ tables # <<>>
    /\ Fault
    /\ Reject("isPartitioned")
    /\ UNCHANGED <<catalog, run, tables, ppc, mem, fsDir, fsTables, fsAgg, log>>
    /\ UNCHANGED colVars
    /\ UNCHANGED <<exits, libVars>>

\* line 427: await file(tablesDir).rmrf().catch(() => {})
RmrfOk ==
    /\ gpc = "rmrf"
    /\ fsDir' = FALSE
    /\ fsTables' = NoFiles
    /\ gpc' = "rm"
    /\ UNCHANGED <<catalog, run, tables, ppc, mem, fsAgg, log, faults, hist>>
    /\ UNCHANGED colVars
    /\ UNCHANGED <<exits, libVars>>

\* the removal fails and leaves the directory; the error is dropped
RmrfFail ==
    /\ gpc = "rmrf"
    /\ fsDir
    /\ Fault
    /\ gpc' = "rm"
    /\ hist' = [hist EXCEPT !.swallowed = TRUE, !.failures = @ \cup {<<"rmrf", NoTable>>}]
    /\ UNCHANGED <<catalog, run, tables, ppc, mem, fsDir, fsTables, fsAgg, log>>
    /\ UNCHANGED colVars
    /\ UNCHANGED <<exits, libVars>>

\* line 428: await file(migrationFile).rm().catch(() => {})
RmOk ==
    /\ gpc = "rm"
    /\ fsAgg.exists
    /\ fsAgg' = NoAggregator
    /\ gpc' = "mkdirp"
    /\ UNCHANGED <<catalog, run, tables, ppc, mem, fsDir, fsTables, log, faults, hist>>
    /\ UNCHANGED colVars
    /\ UNCHANGED <<exits, libVars>>

\* there is no file to remove: rm rejects, and the error is dropped
RmMissing ==
    /\ gpc = "rm"
    /\ ~fsAgg.exists
    /\ gpc' = "mkdirp"
    /\ UNCHANGED <<catalog, run, tables, ppc, mem, fsDir, fsTables, fsAgg, log, faults, hist>>
    /\ UNCHANGED colVars
    /\ UNCHANGED <<exits, libVars>>

\* the removal fails and leaves the file; the error is dropped
RmFail ==
    /\ gpc = "rm"
    /\ fsAgg.exists
    /\ Fault
    /\ gpc' = "mkdirp"
    /\ hist' = [hist EXCEPT !.swallowed = TRUE, !.failures = @ \cup {<<"rm", NoTable>>}]
    /\ UNCHANGED <<catalog, run, tables, ppc, mem, fsDir, fsTables, fsAgg, log>>
    /\ UNCHANGED colVars
    /\ UNCHANGED <<exits, libVars>>

\* line 430, and line 432: every table's pipeline starts with getColumns
MkdirpOk ==
    /\ gpc = "mkdirp"
    /\ fsDir' = TRUE
    /\ gpc' = "pipelines"
    /\ ppc' = [t \in DOMAIN ppc |-> IF t \in RunTables THEN "columns" ELSE "idle"]
    /\ UNCHANGED <<catalog, run, tables, mem, fsTables, fsAgg, log, faults, hist>>
    /\ UNCHANGED colVars
    /\ UNCHANGED <<exits, libVars>>

MkdirpFail ==
    /\ gpc = "mkdirp"
    /\ Fault
    /\ Reject("mkdirp")
    /\ UNCHANGED <<catalog, run, tables, ppc, mem, fsDir, fsTables, fsAgg, log>>
    /\ UNCHANGED colVars
    /\ UNCHANGED <<exits, libVars>>

\* the rejection dropped as lines 427-428 drop theirs: the pipeline goes on to
\* its write
PipelineGoesOn(t, op) ==
    /\ ppc' = [ppc EXCEPT ![t] = "write"]
    /\ gpc' = gpc
    /\ hist' = [hist EXCEPT !.failures = @ \cup {<<op, t>>}]

\* a pipeline rejects: Promise.all rejects with the first rejection, and
\* the other pipelines go on
PipelineFails(t, op) ==
    /\ ppc' = [ppc EXCEPT ![t] = "failed"]
    /\ gpc' = IF gpc = "pipelines" THEN "rejected" ELSE gpc
    /\ hist' = [hist EXCEPT !.failed = TRUE, !.failures = @ \cup {<<op, t>>}]

\* line 433
ColumnsOk(t) ==
    /\ ppc[t] = "columns"
    /\ mem' = [mem EXCEPT ![t].columnsInfo = getColumns(t, TableOf(catalog, t).columns)]
    /\ ppc' = [ppc EXCEPT ![t] = "indexes"]
    /\ UNCHANGED <<catalog, gpc, run, tables, fsDir, fsTables, fsAgg, log, faults, hist>>
    /\ UNCHANGED colVars
    /\ UNCHANGED <<exits, libVars>>

ColumnsFail(t) ==
    /\ ppc[t] = "columns"
    /\ Fault
    /\ PipelineFails(t, "getColumns")
    /\ UNCHANGED <<catalog, run, tables, mem, fsDir, fsTables, fsAgg, log>>
    /\ UNCHANGED colVars
    /\ UNCHANGED <<exits, libVars>>

\* lines 435-449
IndexesOk(t) ==
    /\ ppc[t] = "indexes"
    /\ LET st == ClassifyIndexes(TableOf(catalog, t).indexes,
                                 [columnsInfo |-> mem[t].columnsInfo, indexes |-> <<>>,
                                  logged |-> {}])
       IN /\ mem' = [mem EXCEPT ![t].columnsInfo = st.columnsInfo,
                                ![t].indexes = st.indexes]
          /\ log' = log \cup st.logged
    /\ ppc' = [ppc EXCEPT ![t] = "constraints"]
    /\ UNCHANGED <<catalog, gpc, run, tables, fsDir, fsTables, fsAgg, faults, hist>>
    /\ UNCHANGED colVars
    /\ UNCHANGED <<exits, libVars>>

IndexesFail(t) ==
    /\ ppc[t] = "indexes"
    /\ Fault
    /\ PipelineFails(t, "getIndexes")
    /\ UNCHANGED <<catalog, run, tables, mem, fsDir, fsTables, fsAgg, log>>
    /\ UNCHANGED colVars
    /\ UNCHANGED <<exits, libVars>>

\* the table object handed to singleTableGenerator
TableObject(cat, t, m) ==
    [table_name |-> t, comment |-> TableOf(cat, t).row.comment,
     indexes |-> m.indexes, constraints |-> m.constraints]

\* one constraints object for all the pipelines, never emptied: the rows of
\* table t and of every table whose pipeline has got past line 455
RECURSIVE ConstraintsSeenBy(_, _)
ConstraintsSeenBy(t, i) ==
    IF i > Len(catalog.tables) THEN <<>>
    ELSE (IF catalog.tables[i].row.table_name = t
             \/ ppc[catalog.tables[i].row.table_name] \in {"write", "done"}
          THEN catalog.tables[i].constraints ELSE <<>>)
         \o ConstraintsSeenBy(t, i + 1)

SynthesizedOnSharedConstraints(t) ==
    singleTableGenerator(
        TableObject(catalog, t,
                    [mem[t] EXCEPT !.constraints = KeyedByName(ConstraintsSeenBy(t, 1))]),
        mem[t].columnsInfo)

\* lines 451-458: the constraints are read and keyed by name, the artifact
\* is generated, and its write is started
Synthesized(t) ==
    singleTableGenerator(
        TableObject(catalog, t,
                    [mem[t] EXCEPT !.constraints =
                        KeyedByName(TableOf(catalog, t).constraints)]),
        mem[t].columnsInfo)

SynthesisReturned(t, res) ==
    /\ ~res.threw
    /\ mem' = [mem EXCEPT ![t].constraints = res.constraints,
                          ![t].migration = res.artifact]
    /\ log' = log \cup res.logged
    /\ ppc' = [ppc EXCEPT ![t] = "write"]
    /\ UNCHANGED <<catalog, gpc, run, tables, fsDir, fsTables, fsAgg, faults, hist>>
    /\ UNCHANGED colVars
    /\ UNCHANGED <<exits, libVars>>

SynthesisThrew(t, res) ==
    /\ res.threw
    /\ mem' = [mem EXCEPT ![t].constraints = res.constraints]
    /\ log' = log \cup res.logged
    /\ PipelineFails(t, "singleTableGenerator")
    /\ UNCHANGED <<catalog, run, tables, fsDir, fsTables, fsAgg, faults>>
    /\ UNCHANGED colVars
    /\ UNCHANGED <<exits, libVars>>

ConstraintsOk(t) ==
    /\ ppc[t] = "constraints"
    /\ SynthesisReturned(t, Synthesized(t))

\* singleTableGenerator throws
SynthesisThrows(t) ==
    /\ ppc[t] = "constraints"
    /\ SynthesisThrew(t, Synthesized(t))

ConstraintsFail(t) ==
    /\ ppc[t] = "constraints"
    /\ Fault
    /\ PipelineFails(t, "getConstraints")
    /\ UNCHANGED <<catalog, run, tables, mem, fsDir, fsTables, fsAgg, log>>
    /\ UNCHANGED colVars
    /\ UNCHANGED <<exits, libVars>>

\* files[name] = content
WriteFile(files, name, content) ==
    [n \in DOMAIN files \cup {name} |-> IF n = name THEN content ELSE files[n]]

\* line 458: the write of migrations/tables/create<table>.js ends
WriteOk(t) ==
    /\ ppc[t] = "write"
    /\ fsDir
    /\ fsTables' = WriteFile(fsTables, t, mem[t].migration)
    /\ ppc' = [ppc EXCEPT ![t] = "done"]
    /\ hist' = [hist EXCEPT !.written = @ \cup {t}]
    /\ UNCHANGED <<catalog, gpc, run, tables, mem, fsDir, fsAgg, log, faults>>
    /\ UNCHANGED colVars
    /\ UNCHANGED <<exits, libVars>>

WriteFail(t) ==
    /\ ppc[t] = "write"
    /\ Fault
    /\ PipelineFails(t, "write")
    /\ UNCHANGED <<catalog, run, tables, mem, fsDir, fsTables, fsAgg, log>>
    /\ UNCHANGED colVars
    /\ UNCHANGED <<exits, libVars>>

\* Promise.race in the place of Promise.all: one pipeline has resolved
PipelinesRaced(p, names) == \E t \in names : p[t] = "done"

\* await Promise.all(tables.map(...)) resolves: every pipeline has resolved
PipelinesResolved(p, names) == \A t \in names : p[t] = "done"

\* lines 461-476: the aggregator is rendered and its write is started
JoinPipelines ==
    /\ gpc = "pipelines"
    /\ PipelinesResolved(ppc, RunTables)
    /\ gpc' = "writeAgg"
    /\ hist' = [hist EXCEPT !.aggStarts = @ + 1]
    /\ UNCHANGED <<catalog, run, tables, ppc, mem, fsDir, fsTables, fsAgg, log, faults>>
    /\ UNCHANGED colVars
    /\ UNCHANGED <<exits, libVars>>

\* the aggregator: one require and one up/down entry per table of the run
indexFile(rows) == [exists |-> TRUE, tables |-> Names(rows)]

\* line 476: the write of migrations/0_public.js ends; generate() resolves
WriteAggOk ==
    /\ gpc = "writeAgg"
    /\ fsAgg' = indexFile(tables)
    /\ gpc' = "resolved"
    /\ hist' = [hist EXCEPT !.aggWrites = @ + 1,
                            !.first = IF run = 1
                                      THEN [valid |-> TRUE, files |-> fsTables,
                                            agg |-> indexFile(tables)]
                                      ELSE @]
    /\ UNCHANGED <<catalog, run, tables, ppc, mem, fsDir, fsTables, log, faults>>
    /\ UNCHANGED colVars
    /\ UNCHANGED <<exits, libVars>>

WriteAggFail ==
    /\ gpc = "writeAgg"
    /\ Fault
    /\ Reject("writeAggregator")
    /\ UNCHANGED <<catalog, run, tables, ppc, mem, fsDir, fsTables, fsAgg, log>>
    /\ UNCHANGED colVars
    /\ UNCHANGED <<exits, libVars>>

-----------------------------------------------------------------------------
(* lib/index.js                                                            *)

MaxCalls == 2

\* the environments of the knexfile, an environment it lacks, NODE_ENV's values
Envs == {"production", "test", "development"}
EnvArgs == Envs \cup {"staging"}
NodeEnvs == {"production", "test", ""}

\* the knexfile the application ships: one client, one database per environment
KnexFile(client) ==
    [e \in Envs |->
        [client |-> client,
         database |-> CASE e = "production" -> "prod"
                        [] e = "test" -> "tdb"
                        [] OTHER -> "dev"]]

\* no knex given, and the names Math.random() yields in copyDbForTest (line 419)
NoKnex == "none"
CopyNames == {"copy1", "copy2", "copy3", "copy4"}
FreshCopy(existing) == CHOOSE n \in CopyNames : n \notin existing

NoArgs ==
    [fn |-> "", env |-> "", migrate |-> FALSE, knex |-> NoKnex, originalDb |-> "",
     oldDb |-> "", newDb |-> ""]

\* the options of addColumn with their defaults (lines 519-521)
NoOpts == [updateInBatch |-> TRUE, index |-> FALSE, indexConcurrent |-> FALSE]

\* stack: the functions entered, innermost first; pc: where the innermost one
\* is; call: the arguments of the outermost call; a: the arguments and locals
\* of the innermost one; conn: the database of the temporary knex; found:
\* res.rowCount of the existence query; outcome, ret: how the last call ended;
\* calls, only, creates: the number of calls made so far, their function and
\* env argument while all of them had the same, and the CREATE DATABASE
\* statements createDb issued in them; opts: the options given to addColumn
NoCall ==
    [stack |-> <<>>, pc |-> "idle", call |-> NoArgs, a |-> NoArgs, dbName |-> "",
     conn |-> "", found |-> FALSE, globalKnex |-> NoKnex, outcome |-> "none",
     ret |-> NoKnex, calls |-> 0, only |-> <<>>, creates |-> 0, opts |-> NoOpts]

LibIdle ==
    /\ nodeEnv = ""
    /\ knexfile = KnexFile("pg")
    /\ dbs = {"postgres"}
    /\ trace = <<>>
    /\ lib = NoCall

LibFrame ==
    UNCHANGED <<colIn, cpc, typeOut, defOut, catalog, gpc, run, tables, ppc, mem,
                fsDir, fsTables, fsAgg, log, hist, exits, nodeEnv>>

\* one step of lib/index.js: what it leaves in each variable
LibStep(l, kf, d, tr, f) ==
    /\ lib' = l
    /\ knexfile' = kf
    /\ dbs' = d
    /\ trace' = tr
    /\ faults' = f
    /\ LibFrame

\* a statement or a destroy() was issued on a knex
Issued(kind, db, ok) == Append(trace, [kind |-> kind, db |-> db, ok |-> ok])

\* the innermost function and its position
At(f, pc) == lib.stack # <<>> /\ Head(lib.stack) = f /\ lib.pc = pc

\* an I/O step may fail while failures are left to inject
MayFail == faults < MaxFaults

\* a throw: no function of lib/index.js catches what its callee throws, so the
\* outermost call ends with it
Throws(l) ==
    [l EXCEPT !.stack = <<>>, !.pc = "idle", !.conn = "", !.outcome = "threw",
              !.ret = NoKnex]

\* a return: to the caller's continuation, or the end of the outermost call
Returns(l, ret) ==
    IF Len(l.stack) > 1
    THEN [l EXCEPT !.stack = Tail(@), !.pc = "after " \o Head(l.stack), !.conn = ""]
    ELSE [l EXCEPT !.stack = <<>>, !.pc = "idle", !.conn = "", !.outcome = "returned",
                   !.ret = ret]

\* a call of a function of lib/index.js from another one
Calls(l, f) == [l EXCEPT !.stack = <<f>> \o @, !.pc = "entry"]

\* the config of env with connection.database set to db (an assignment to the
\* shared object getKnexFile() returns)
SetDatabase(kf, env, db) == [kf EXCEPT ![env].database = db]

\* NODE_ENV || fallback
NodeEnvOr(fallback) == IF nodeEnv = "" THEN fallback ELSE nodeEnv

\* getDbName(env), lines 350-354
getDbName(env) == knexfile[env].database

\* a guard that looks at the env argument alone
GuardedByArgument(ne, env) == env = "production"

\* the guard of dropDb, line 203
Guarded(ne, env) == ne = "production" \/ env = "production"

\* the guard of dropDbKnex, copyDb, copyDbForTest and rollbackCopyDbForTest
\* (lines 252, 360, 401, 430)
InProduction(ne) == ne = "production"

\* the database a temporary knex is pointed at: 'postgres', or none (lines
\* 219-227 and 300-315)
TempDatabase(client) == IF client = "pg" THEN "postgres" ELSE ""

\* getKnex(), lines 32-41: the global knex, made on first use from the config
\* of NODE_ENV || 'development'
getKnex(g) == IF g = NoKnex THEN knexfile[NodeEnvOr("development")].database ELSE g

\* lines 232-248 of dropDb and, statement for statement, lines 271-285 of
\* dropDbKnex: ALTER and pg_terminate_backend inside try/catch, then DROP
\* DATABASE IF EXISTS and destroy()
ForceDisconnectAndDrop(f) ==
    \/ /\ At(f, "alter")
       /\ \/ /\ lib.dbName \in dbs
             /\ LibStep([lib EXCEPT !.pc = "terminate"], knexfile, dbs,
                        Issued("ALTER", lib.dbName, TRUE), faults)
          \/ /\ lib.dbName \notin dbs
             /\ LibStep([lib EXCEPT !.pc = "drop"], knexfile, dbs,
                        Issued("ALTER", lib.dbName, FALSE), faults)
          \/ /\ MayFail
             /\ LibStep([lib EXCEPT !.pc = "drop"], knexfile, dbs,
                        Issued("ALTER", lib.dbName, FALSE), faults + 1)
    \/ /\ At(f, "terminate")
       /\ \/ LibStep([lib EXCEPT !.pc = "drop"], knexfile, dbs,
                     Issued("TERMINATE", lib.dbName, TRUE), faults)
          \/ /\ MayFail
             /\ LibStep([lib EXCEPT !.pc = "drop"], knexfile, dbs,
                        Issued("TERMINATE", lib.dbName, FALSE), faults + 1)
    \/ /\ At(f, "drop")
       /\ \/ /\ lib.dbName # lib.conn
             /\ LibStep([lib EXCEPT !.pc = "destroy"], knexfile, dbs \ {lib.dbName},
                        Issued("DROP", lib.dbName, TRUE), faults)
          \/ \* the server refuses to drop the database the knex is connected to
             /\ lib.dbName = lib.conn
             /\ LibStep(Throws(lib), knexfile, dbs,
                        Issued("DROP", lib.dbName, FALSE), faults)
          \/ /\ MayFail
             /\ LibStep(Throws(lib), knexfile, dbs,
                        Issued("DROP", lib.dbName, FALSE), faults + 1)
    \/ /\ At(f, "destroy")
       /\ \/ LibStep(Returns(lib, NoKnex), knexfile, dbs,
                     Issued("destroy", lib.conn, TRUE), faults)
          \/ /\ MayFail
             /\ LibStep(Throws(lib), knexfile, dbs,
                        Issued("destroy", lib.conn, FALSE), faults + 1)

\* dropDb(env), lines 202-249
dropDb ==
    \/ /\ At("dropDb", "entry")
       /\ \/ /\ IF Guarded(nodeEnv, lib.a.env) \/ lib.a.env \notin DOMAIN knexfile
                THEN TRUE
                ELSE getDbName(lib.a.env) = ""
             /\ LibStep(Throws(lib), knexfile, dbs, trace, faults)
          \/ /\ ~Guarded(nodeEnv, lib.a.env)
             /\ lib.a.env \in DOMAIN knexfile
             /\ getDbName(lib.a.env) # ""
             /\ \/ LibStep([lib EXCEPT
                               !.dbName = getDbName(lib.a.env),
                               !.conn = TempDatabase(knexfile[lib.a.env].client),
                               !.pc = IF knexfile[lib.a.env].client = "pg"
                                      THEN "alter" ELSE "drop"],
                           knexfile, dbs, trace, faults)
                \/ \* Knex() throws at line 229, before line 230 restores
                   /\ MayFail
                   /\ LibStep(Throws(lib),
                              SetDatabase(knexfile, lib.a.env,
                                          TempDatabase(knexfile[lib.a.env].client)),
                              dbs, trace, faults + 1)
    \/ ForceDisconnectAndDrop("dropDb")

\* dropDbKnex(knex), lines 251-286
dropDbKnex ==
    \/ /\ At("dropDbKnex", "entry")
       /\ \/ /\ InProduction(nodeEnv) \/ lib.a.knex = NoKnex
             /\ LibStep(Throws(lib), knexfile, dbs, trace, faults)
          \/ /\ ~InProduction(nodeEnv)
             /\ lib.a.knex # NoKnex
             /\ LibStep([lib EXCEPT !.pc = "destroyKnex"], knexfile, dbs, trace, faults)
    \/ /\ At("dropDbKnex", "destroyKnex")
       /\ \/ LibStep([lib EXCEPT !.dbName = lib.a.knex, !.conn = "postgres",
                                 !.pc = "alter"],
                     knexfile, dbs, Issued("destroy", lib.a.knex, TRUE), faults)
          \/ /\ MayFail
             /\ LibStep(Throws(lib), knexfile, dbs,
                        Issued("destroy", lib.a.knex, FALSE), faults + 1)
    \/ ForceDisconnectAndDrop("dropDbKnex")

\* createDb(env, {migrate}), lines 291-326
createDb ==
    \/ /\ At("createDb", "entry")
       /\ \/ \* getKnexFile()[env] is undefined: line 293 throws a TypeError
             /\ lib.a.env \notin DOMAIN knexfile
             /\ LibStep(Throws(lib), knexfile, dbs, trace, faults)
          \/ /\ lib.a.env \in DOMAIN knexfile
             /\ \/ LibStep([lib EXCEPT
                               !.dbName = getDbName(lib.a.env),
                               !.conn = TempDatabase(knexfile[lib.a.env].client),
                               !.pc = IF knexfile[lib.a.env].client = "pg"
                                      THEN "select" ELSE "createIfNotExists"],
                           SetDatabase(knexfile, lib.a.env,
                                       TempDatabase(knexfile[lib.a.env].client)),
                           dbs, trace, faults)
                \/ \* Knex() throws at line 303 or 315
                   /\ MayFail
                   /\ LibStep(Throws(lib),
                              SetDatabase(knexfile, lib.a.env,
                                          TempDatabase(knexfile[lib.a.env].client)),
                              dbs, trace, faults + 1)
    \/ /\ At("createDb", "select")
       /\ \/ \* a row: the database exists (lines 309-311, then 318-319)
             /\ lib.dbName \in dbs
             /\ LibStep([lib EXCEPT !.pc = "destroy", !.found = TRUE],
                        SetDatabase(knexfile, lib.a.env, lib.dbName), dbs,
                        Issued("SELECT", lib.dbName, TRUE), faults)
          \/ /\ lib.dbName \notin dbs
             /\ LibStep([lib EXCEPT !.pc = "create", !.found = FALSE], knexfile, dbs,
                        Issued("SELECT", lib.dbName, TRUE), faults)
          \/ /\ MayFail
             /\ LibStep(Throws(lib), knexfile, dbs,
                        Issued("SELECT", lib.dbName, FALSE), faults + 1)
    \/ /\ At("createDb", "create")
       /\ \/ /\ lib.dbName \notin dbs
             /\ LibStep([lib EXCEPT !.pc = "destroy", !.creates = @ + 1],
                        SetDatabase(knexfile, lib.a.env, lib.dbName),
                        dbs \cup {lib.dbName},
                        Issued("CREATE", lib.dbName, TRUE), faults)
          \/ /\ MayFail
             /\ LibStep(Throws([lib EXCEPT !.creates = @ + 1]), knexfile, dbs,
                        Issued("CREATE", lib.dbName, FALSE), faults + 1)
    \/ /\ At("createDb", "createIfNotExists")
       /\ \/ LibStep([lib EXCEPT !.pc = "destroy"],
                     SetDatabase(knexfile, lib.a.env, lib.dbName),
                     dbs \cup {lib.dbName},
                     Issued("CREATE IF NOT EXISTS", lib.dbName, TRUE), faults)
          \/ /\ MayFail
             /\ LibStep(Throws(lib), knexfile, dbs,
                        Issued("CREATE IF NOT EXISTS", lib.dbName, FALSE), faults + 1)
    \/ /\ At("createDb", "destroy")
       /\ \/ /\ ~lib.a.migrate
             /\ LibStep(Returns(lib, NoKnex), knexfile, dbs,
                        Issued("destroy", lib.conn, TRUE), faults)
          \/ /\ lib.a.migrate
             /\ LibStep([lib EXCEPT !.pc = "migrate", !.conn = "",
                                    !.globalKnex = getKnex(@)],
                        knexfile, dbs, Issued("destroy", lib.conn, TRUE), faults)
          \/ /\ MayFail
             /\ LibStep(Throws(lib), knexfile, dbs,
                        Issued("destroy", lib.conn, FALSE), faults + 1)
    \/ /\ At("createDb", "migrate")
       /\ \/ /\ lib.globalKnex \in dbs
             /\ LibStep(Returns(lib, NoKnex), knexfile, dbs,
                        Issued("MIGRATE", lib.globalKnex, TRUE), faults)
          \/ \* the database of the global knex does not exist
             /\ lib.globalKnex \notin dbs
             /\ LibStep(Throws(lib), knexfile, dbs,
                        Issued("MIGRATE", lib.globalKnex, FALSE), faults)
          \/ /\ MayFail
             /\ LibStep(Throws(lib), knexfile, dbs,
                        Issued("MIGRATE", lib.globalKnex, FALSE), faults + 1)

\* recreateDb(env), lines 332-348
recreateDb ==
    \/ /\ At("recreateDb", "entry")
       /\ \/ \* line 334 reads dbConfig.connection of an undefined config
             /\ lib.a.env \notin DOMAIN knexfile
             /\ LibStep(Throws(lib), knexfile, dbs, trace, faults)
          \/ /\ lib.a.env \in DOMAIN knexfile
             /\ LibStep(Calls(lib, "dropDb"), knexfile, dbs, trace, faults)
    \/ /\ At("recreateDb", "after dropDb")
       /\ LibStep(Calls(lib, "createDb"), knexfile, dbs, trace, faults)
    \/ /\ At("recreateDb", "after createDb")
       /\ \/ /\ lib.globalKnex = NoKnex
             /\ LibStep(Returns([lib EXCEPT !.globalKnex = getDbName(lib.a.env)],
                                getDbName(lib.a.env)),
                        knexfile, dbs, trace, faults)
          \/ /\ lib.globalKnex # NoKnex
             /\ LibStep(Returns([lib EXCEPT !.globalKnex = getDbName(lib.a.env)],
                                getDbName(lib.a.env)),
                        knexfile, dbs, Issued("destroy", lib.globalKnex, TRUE), faults)
          \/ /\ lib.globalKnex # NoKnex
             /\ MayFail
             /\ LibStep(Throws(lib), knexfile, dbs,
                        Issued("destroy", lib.globalKnex, FALSE), faults + 1)

\* refreshDb(env), lines 468-478
refreshDb ==
    \/ /\ At("refreshDb", "entry")
       /\ LibStep(Calls(lib, "recreateDb"), knexfile, dbs, trace, faults)
    \/ /\ At("refreshDb", "after recreateDb")
       /\ \/ LibStep([lib EXCEPT !.pc = "seed"], knexfile, dbs,
                     Issued("MIGRATE", lib.globalKnex, TRUE), faults)
          \/ /\ MayFail
             /\ LibStep(Throws(lib), knexfile, dbs,
                        Issued("MIGRATE", lib.globalKnex, FALSE), faults + 1)
    \/ /\ At("refreshDb", "seed")
       /\ \/ LibStep(Returns(lib, lib.globalKnex), knexfile, dbs,
                     Issued("SEED", lib.globalKnex, TRUE), faults)
          \/ /\ MayFail
             /\ LibStep(Throws(lib), knexfile, dbs,
                        Issued("SEED", lib.globalKnex, FALSE), faults + 1)

\* copyDb(knex, oldDbName, newDbName), lines 359-395
copyDb ==
    \/ /\ At("copyDb", "entry")
       /\ \/ /\ \/ InProduction(nodeEnv)
                \/ lib.a.knex = NoKnex
                \/ lib.a.oldDb = lib.a.newDb
             /\ LibStep(Throws(lib), knexfile, dbs, trace, faults)
          \/ /\ ~InProduction(nodeEnv)
             /\ lib.a.knex # NoKnex
             /\ lib.a.oldDb # lib.a.newDb
             /\ LibStep([lib EXCEPT !.pc = "destroyKnex"], knexfile, dbs, trace, faults)
    \/ /\ At("copyDb", "destroyKnex")
       /\ \/ LibStep([lib EXCEPT !.conn = "postgres", !.pc = "terminate"],
                     knexfile, dbs, Issued("destroy", lib.a.knex, TRUE), faults)
          \/ /\ MayFail
             /\ LibStep(Throws(lib), knexfile, dbs,
                        Issued("destroy", lib.a.knex, FALSE), faults + 1)
    \/ /\ At("copyDb", "terminate")
       /\ \/ LibStep([lib EXCEPT !.pc = "copy"], knexfile, dbs,
                     Issued("TERMINATE", lib.a.oldDb, TRUE), faults)
          \/ /\ MayFail
             /\ LibStep(Throws(lib), knexfile, dbs,
                        Issued("TERMINATE", lib.a.oldDb, FALSE), faults + 1)
    \/ /\ At("copyDb", "copy")
       /\ \/ /\ lib.a.oldDb \in dbs
             /\ lib.a.newDb \notin dbs
             /\ LibStep([lib EXCEPT !.pc = "destroy"], knexfile,
                        dbs \cup {lib.a.newDb},
                        Issued("COPY", lib.a.newDb, TRUE), faults)
          \/ \* no template to copy, or the new name is taken
             /\ lib.a.oldDb \notin dbs \/ lib.a.newDb \in dbs
             /\ LibStep(Throws(lib), knexfile, dbs,
                        Issued("COPY", lib.a.newDb, FALSE), faults)
          \/ /\ MayFail
             /\ LibStep(Throws(lib), knexfile, dbs,
                        Issued("COPY", lib.a.newDb, FALSE), faults + 1)
    \/ /\ At("copyDb", "destroy")
       /\ \/ LibStep(Returns(lib, lib.a.newDb), knexfile, dbs,
                     Issued("destroy", lib.conn, TRUE), faults)
          \/ /\ MayFail
             /\ LibStep(Throws(lib), knexfile, dbs,
                        Issued("destroy", lib.conn, FALSE), faults + 1)

\* originalDb as lines 409-411 and 441-443 default it
OriginalDb(given) == IF given = "" THEN getDbName(NodeEnvOr("test")) ELSE given

\* copyDbForTest(knex, originalDb), lines 400-424
copyDbForTest ==
    \/ /\ At("copyDbForTest", "entry")
       /\ \/ /\ \/ InProduction(nodeEnv)
                \/ lib.a.knex = NoKnex
                \/ OriginalDb(lib.a.originalDb) \in {"", "postgres"}
             /\ LibStep(Throws(lib), knexfile, dbs, trace, faults)
          \/ /\ ~InProduction(nodeEnv)
             /\ lib.a.knex # NoKnex
             /\ OriginalDb(lib.a.originalDb) \notin {"", "postgres"}
             /\ LibStep(Calls([lib EXCEPT !.a.oldDb = OriginalDb(lib.a.originalDb),
                                          !.a.newDb = FreshCopy(dbs)], "copyDb"),
                        knexfile, dbs, trace, faults)
    \/ /\ At("copyDbForTest", "after copyDb")
       /\ LibStep(Returns(lib, lib.a.newDb), knexfile, dbs, trace, faults)

\* a rollback that never finds the knex on the original database
RollsBackAlways(currentDb, originalDb) == FALSE

\* line 451, currentDb === originalDb
NothingToRollBack(currentDb, originalDb) == currentDb = originalDb

\* rollbackCopyDbForTest(knex, originalDb), lines 429-463
rollbackCopyDbForTest ==
    \/ /\ At("rollbackCopyDbForTest", "entry")
       /\ \/ /\ \/ InProduction(nodeEnv)
                \/ lib.a.knex = NoKnex
                \/ OriginalDb(lib.a.originalDb) \in {"", "postgres"}
             /\ LibStep(Throws(lib), knexfile, dbs, trace, faults)
          \/ /\ ~InProduction(nodeEnv)
             /\ lib.a.knex # NoKnex
             /\ OriginalDb(lib.a.originalDb) \notin {"", "postgres"}
             /\ \/ /\ NothingToRollBack(lib.a.knex, OriginalDb(lib.a.originalDb))
                   /\ LibStep(Returns(lib, lib.a.knex),
                              knexfile, dbs, trace, faults)
                \/ /\ ~NothingToRollBack(lib.a.knex, OriginalDb(lib.a.originalDb))
                   /\ LibStep(Calls([lib EXCEPT
                                        !.a.originalDb = OriginalDb(lib.a.originalDb)],
                                    "dropDbKnex"),
                              knexfile, dbs, trace, faults)
    \/ /\ At("rollbackCopyDbForTest", "after dropDbKnex")
       /\ LibStep(Returns(lib, lib.a.originalDb), knexfile, dbs, trace, faults)

\* the calls an application makes, one at a time, of the functions that
\* module.exports lists (lines 568-587); dropDbKnex, which is not exported and
\* is reached through rollbackCopyDbForTest, is also entered on its own so
\* that its guard is exercised
CallArgs ==
    [fn : {"dropDb", "recreateDb", "refreshDb"}, env : EnvArgs, migrate : {FALSE},
     knex : {NoKnex}, originalDb : {""}, oldDb : {""}, newDb : {""}]
    \cup
    [fn : {"createDb"}, env : EnvArgs, migrate : BOOLEAN,
     knex : {NoKnex}, originalDb : {""}, oldDb : {""}, newDb : {""}]
    \cup
    [fn : {"dropDbKnex"}, env : {""}, migrate : {FALSE},
     knex : {NoKnex, "tdb", "copy1"}, originalDb : {""}, oldDb : {""}, newDb : {""}]
    \cup
    [fn : {"copyDbForTest", "rollbackCopyDbForTest"}, env : {""}, migrate : {FALSE},
     knex : {NoKnex, "tdb", "copy1"}, originalDb : {"", "tdb", "postgres"},
     oldDb : {""}, newDb : {""}]
    \cup
    [fn : {"copyDb"}, env : {""}, migrate : {FALSE},
     knex : {NoKnex, "tdb"}, originalDb : {""}, oldDb : {"tdb"},
     newDb : {"tdb", "copy1"}]

\* trace restarts with each call
Call ==
    /\ lib.stack = <<>>
    /\ lib.calls < MaxCalls
    /\ \E c \in CallArgs :
          LibStep([lib EXCEPT !.stack = <<c.fn>>, !.pc = "entry", !.call = c, !.a = c,
                              !.dbName = "", !.conn = "", !.found = FALSE,
                              !.outcome = "none", !.ret = NoKnex, !.calls = @ + 1,
                              !.only = IF lib.calls = 0 \/ @ = <<c.fn, c.env>>
                                       THEN <<c.fn, c.env>> ELSE <<"several">>],
                  knexfile, dbs, <<>>, faults)

-----------------------------------------------------------------------------
(* addColumn and updateColumnInBatch of lib/index.js, lines 480-566         *)

\* an index on every added column, whatever the index option says
IndexAlways(index) == "index"

\* line 554, if (index): what follows SET NOT NULL
AfterNotNull(index) == IF index THEN "index" ELSE "return"

\* updateColumnInBatch({table, column, update}), lines 480-488
updateColumnInBatch ==
    \/ /\ At("updateColumnInBatch", "entry")
       /\ \/ LibStep([lib EXCEPT !.pc = "update", !.globalKnex = getKnex(@)],
                     knexfile, dbs, trace, faults)
          \/ \* Knex(dbConfig) throws (line 36)
             /\ lib.globalKnex = NoKnex
             /\ MayFail
             /\ LibStep(Throws(lib), knexfile, dbs, trace, faults + 1)
    \/ /\ At("updateColumnInBatch", "update")
       /\ \/ LibStep(Returns(lib, NoKnex), knexfile, dbs,
                     Issued("UPDATE", lib.globalKnex, TRUE), faults)
          \/ /\ MayFail
             /\ LibStep(Throws(lib), knexfile, dbs,
                        Issued("UPDATE", lib.globalKnex, FALSE), faults + 1)

\* addColumn({table, column, type, default, update, updateInBatch, index,
\* indexConcurrent}), lines 513-566
addColumn ==
    \/ /\ At("addColumn", "entry")
       /\ \/ LibStep([lib EXCEPT !.pc = "add", !.globalKnex = getKnex(@)],
                     knexfile, dbs, trace, faults)
          \/ \* Knex(dbConfig) throws (line 36)
             /\ lib.globalKnex = NoKnex
             /\ MayFail
             /\ LibStep(Throws(lib), knexfile, dbs, trace, faults + 1)
    \/ \* lines 526-528
       /\ At("addColumn", "add")
       /\ \/ LibStep([lib EXCEPT !.pc = "default"], knexfile, dbs,
                     Issued("ADD COLUMN NULLABLE", lib.globalKnex, TRUE), faults)
          \/ /\ MayFail
             /\ LibStep(Throws(lib), knexfile, dbs,
                        Issued("ADD COLUMN NULLABLE", lib.globalKnex, FALSE), faults + 1)
    \/ \* lines 531-534
       /\ At("addColumn", "default")
       /\ \/ LibStep([lib EXCEPT !.pc = "update"], knexfile, dbs,
                     Issued("SET DEFAULT", lib.globalKnex, TRUE), faults)
          \/ /\ MayFail
             /\ LibStep(Throws(lib), knexfile, dbs,
                        Issued("SET DEFAULT", lib.globalKnex, FALSE), faults + 1)
    \/ \* lines 537-543
       /\ At("addColumn", "update")
       /\ lib.opts.updateInBatch
       /\ LibStep(Calls(lib, "updateColumnInBatch"), knexfile, dbs, trace, faults)
    \/ \* lines 544-546
       /\ At("addColumn", "update")
       /\ ~lib.opts.updateInBatch
       /\ \/ LibStep([lib EXCEPT !.pc = "notNull"], knexfile, dbs,
                     Issued("UPDATE", lib.globalKnex, TRUE), faults)
          \/ /\ MayFail
             /\ LibStep(Throws(lib), knexfile, dbs,
                        Issued("UPDATE", lib.globalKnex, FALSE), faults + 1)
    \/ \* lines 549-552
       /\ \/ At("addColumn", "notNull")
          \/ At("addColumn", "after updateColumnInBatch")
       /\ \/ LibStep([lib EXCEPT !.pc = AfterNotNull(lib.opts.index)], knexfile, dbs,
                     Issued("SET NOT NULL", lib.globalKnex, TRUE), faults)
          \/ /\ MayFail
             /\ LibStep(Throws(lib), knexfile, dbs,
                        Issued("SET NOT NULL", lib.globalKnex, FALSE), faults + 1)
    \/ \* lines 556-559
       /\ At("addColumn", "index")
       /\ lib.opts.indexConcurrent
       /\ \/ LibStep([lib EXCEPT !.pc = "return"], knexfile, dbs,
                     Issued("CREATE INDEX CONCURRENTLY", lib.globalKnex, TRUE), faults)
          \/ /\ MayFail
             /\ LibStep(Throws(lib), knexfile, dbs,
                        Issued("CREATE INDEX CONCURRENTLY", lib.globalKnex, FALSE),
                        faults + 1)
    \/ \* lines 560-564
       /\ At("addColumn", "index")
       /\ ~lib.opts.indexConcurrent
       /\ \/ LibStep([lib EXCEPT !.pc = "return"], knexfile, dbs,
                     Issued("CREATE INDEX", lib.globalKnex, TRUE), faults)
          \/ /\ MayFail
             /\ LibStep(Throws(lib), knexfile, dbs,
                        Issued("CREATE INDEX", lib.globalKnex, FALSE), faults + 1)
    \/ /\ At("addColumn", "return")
       /\ LibStep(Returns(lib, NoKnex), knexfile, dbs, trace, faults)

ColumnOpts == [updateInBatch : BOOLEAN, index : BOOLEAN, indexConcurrent : BOOLEAN]

\* a call of addColumn with some options, or of updateColumnInBatch
CallColumn ==
    /\ lib.stack = <<>>
    /\ lib.calls < MaxCalls
    /\ \E fn \in {"addColumn", "updateColumnInBatch"} :
       \E o \in IF fn = "addColumn" THEN ColumnOpts ELSE {NoOpts} :
          LibStep([lib EXCEPT !.stack = <<fn>>, !.pc = "entry",
                              !.call = [NoArgs EXCEPT !.fn = fn],
                              !.a = [NoArgs EXCEPT !.fn = fn], !.opts = o,
                              !.outcome = "none", !.ret = NoKnex, !.calls = @ + 1,
                              !.only = IF lib.calls = 0 \/ @ = <<fn, "">>
                                       THEN <<fn, "">> ELSE <<"several">>],
                  knexfile, dbs, <<>>, faults)

-----------------------------------------------------------------------------
(* main() of lib/consolidate.js, lines 479-491, as the consolidate command  *)
(* awaits it                                                               *)

MainIdle == exits = <<>>

\* a process.exit that returned to its caller, which no build of node does
ProcessSurvivesExit(codes) == TRUE

\* process.exit(code) ends the process: nothing of it runs afterwards
ProcessRunning(codes) == codes = <<>>

\* main() calls generate() (line 483)
MainStart ==
    /\ ProcessRunning(exits)
    /\ run = 0
    /\ StartRun

\* .catch((err) => {...; process.exit(1)}): generate() has rejected
MainCatch ==
    /\ ProcessRunning(exits)
    /\ gpc = "rejected"
    /\ 1 \notin {exits[i] : i \in 1..Len(exits)}
    /\ exits' = Append(exits, 1)
    /\ UNCHANGED <<catalog, gpc, run, tables, ppc, mem, fsDir, fsTables, fsAgg, log,
                   faults, hist>>
    /\ UNCHANGED colVars
    /\ UNCHANGED libVars

\* .then(() => {...; process.exit(0)}): the promise of .catch has resolved,
\* because generate() resolved or because the handler of .catch returned
MainThen ==
    /\ ProcessRunning(exits)
    /\ \/ gpc = "resolved"
       \/ gpc = "rejected" /\ 1 \in {exits[i] : i \in 1..Len(exits)}
    /\ 0 \notin {exits[i] : i \in 1..Len(exits)}
    /\ exits' = Append(exits, 0)
    /\ UNCHANGED <<catalog, gpc, run, tables, ppc, mem, fsDir, fsTables, fsAgg, log,
                   faults, hist>>
    /\ UNCHANGED colVars
    /\ UNCHANGED libVars

-----------------------------------------------------------------------------
(* Specifications                                                          *)

GenIdle ==
    /\ catalog = Catalog(<<>>, {})
    /\ gpc = "idle"
    /\ run = 0
    /\ tables = <<>>
    /\ ppc = <<>>
    /\ mem = <<>>
    /\ fsDir = FALSE
    /\ fsTables = NoFiles
    /\ fsAgg = NoAggregator
    /\ faults = 0
    /\ hist = NewRun(NoSnapshot)

\* one column, drawn, through getType and defaults
InitColumn ==
    /\ colIn \in ColumnInputs
    /\ cpc = "start"
    /\ typeOut = NoResult
    /\ defOut = NoDefaults
    /\ log = {}
    /\ GenIdle
    /\ MainIdle
    /\ LibIdle

NextColumn == CallGetType \/ CallDefaults

SpecColumn == InitColumn /\ [][NextColumn]_vars

\* generate() on a drawn catalog and disk, called up to MaxRuns times
Init ==
    /\ ColumnIdle
    /\ MainIdle
    /\ LibIdle
    /\ catalog \in Catalogs
    /\ gpc = "idle"
    /\ run = 0
    /\ tables = <<>>
    /\ ppc = [t \in TableNames(catalog) |-> "idle"]
    /\ mem = [t \in TableNames(catalog) |-> NoMem]
    /\ \E disk \in InitialDisks :
          /\ fsDir = disk.dir
          /\ fsTables = disk.files
          /\ fsAgg = disk.agg
    /\ log = {}
    /\ faults = 0
    /\ hist = NewRun(NoSnapshot)

Next ==
    \/ StartRun
    \/ GetTablesOk \/ GetTablesFail
    \/ PartitionOk \/ PartitionFail
    \/ RmrfOk \/ RmrfFail
    \/ RmOk \/ RmMissing \/ RmFail
    \/ MkdirpOk \/ MkdirpFail
    \/ (\E t \in DOMAIN ppc : ColumnsOk(t)) \/ (\E t \in DOMAIN ppc : ColumnsFail(t))
    \/ (\E t \in DOMAIN ppc : IndexesOk(t)) \/ (\E t \in DOMAIN ppc : IndexesFail(t))
    \/ (\E t \in DOMAIN ppc : ConstraintsOk(t))
    \/ (\E t \in DOMAIN ppc : SynthesisThrows(t))
    \/ (\E t \in DOMAIN ppc : ConstraintsFail(t))
    \/ (\E t \in DOMAIN ppc : WriteOk(t)) \/ (\E t \in DOMAIN ppc : WriteFail(t))
    \/ JoinPipelines
    \/ WriteAggOk \/ WriteAggFail

Spec == Init /\ [][Next]_vars

-----------------------------------------------------------------------------
(* One drawn table through its pipeline (lines 432-459)                    *)

ColumnNamePool == {C_a, C_0, C_1}

ColumnRowPool ==
    {Column(n, ty, FALSE, def, 0, 0, "", NoText) :
        n \in ColumnNamePool, ty \in {"text", "integer"},
        def \in {NullDefault, Default(D_qa)}}

UsedColumnNames(cols) == {cols[i].column_name : i \in 1..Len(cols)}

\* the sequences of at most n columns with distinct names
RECURSIVE ColumnSeqs(_)
ColumnSeqs(n) ==
    IF n = 0 THEN {<<>>}
    ELSE LET shorter == ColumnSeqs(n - 1)
         IN shorter \cup
            {Append(p[1], p[2]) :
                p \in {q \in shorter \X ColumnRowPool :
                          q[2].column_name \notin UsedColumnNames(q[1])}}

ConstraintRowPool ==
    {Constraint(n, d, ty) :
        n \in {CheckName(T_T, C_a), <<"k">>}, d \in {Def_abc, Def_len}, ty \in {"c", "f"}}

UsedConstraintNames(cons) == {cons[i].constraint_name : i \in 1..Len(cons)}

\* the sequences of at most n constraints with distinct names
RECURSIVE ConstraintSeqs(_)
ConstraintSeqs(n) ==
    IF n = 0 THEN {<<>>}
    ELSE LET shorter == ConstraintSeqs(n - 1)
         IN shorter \cup
            {Append(p[1], p[2]) :
                p \in {q \in shorter \X ConstraintRowPool :
                          q[2].constraint_name \notin UsedConstraintNames(q[1])}}

E_lower == <<"l", "o", "w", "e", "r", "(", "a", ")">>

\* what an index row may index: a column, a quoted column, an expression,
\* two columns
IndexedPool == {<<C_a>>, <<<<DQ, "0", DQ>>>>, <<E_lower>>, <<C_a, <<DQ, "0", DQ>>>>}

IndexNames == <<"i1", "i2", "i3", "i4">>

\* the sequences of at most n index rows; the k-th row is named by IndexNames
RECURSIVE IndexSeqs(_)
IndexSeqs(n) ==
    IF n = 0 THEN {<<>>}
    ELSE LET shorter == IndexSeqs(n - 1)
         IN shorter \cup
            {Append(s, IndexRow(IndexNames[Len(s) + 1], T_T, cols, role[1], role[2], am)) :
                s \in {x \in shorter : Len(x) = n - 1}, cols \in IndexedPool,
                role \in {<<TRUE, TRUE>>, <<TRUE, FALSE>>, <<FALSE, FALSE>>},
                am \in {"btree", "gin"}}

TwoColumns ==
    <<Column(C_a, "text", FALSE, NullDefault, 0, 0, "", NoText),
      Column(C_0, "integer", TRUE, NullDefault, 0, 0, "", NoText)>>

\* every index of the table is on columns of the table or on an expression
IndexesOnColumns(tbl) ==
    \A i \in 1..Len(tbl.indexes) :
        \A k \in 1..Len(tbl.indexes[i].indexed_columns) :
            \/ tbl.indexes[i].indexed_columns[k] = E_lower
            \/ RemoveAll(tbl.indexes[i].indexed_columns[k], DQ)
                  \in UsedColumnNames(tbl.columns)

\* columns of a user-defined type, citext or another one
UdtColumnPool ==
    {Column(n, "USER-DEFINED", FALSE, NullDefault, 0, 0, udt, NoText) :
        n \in ColumnNamePool, udt \in {"citext", "hstore"}}

\* the sequences of at most n such columns with distinct names
RECURSIVE UdtColumnSeqs(_)
UdtColumnSeqs(n) ==
    IF n = 0 THEN {<<>>}
    ELSE LET shorter == UdtColumnSeqs(n - 1)
         IN shorter \cup
            {Append(p[1], p[2]) :
                p \in {q \in shorter \X UdtColumnPool :
                          q[2].column_name \notin UsedColumnNames(q[1])}}

TableInputs ==
    {Table(T_T, cols, <<>>, <<>>) : cols \in UdtColumnSeqs(MaxCols) \ {<<>>}}
    \cup
    {Table(T_T, cols, <<>>, cons) :
        cols \in ColumnSeqs(MaxCols) \ {<<>>}, cons \in ConstraintSeqs(MaxCons)}
    \cup
    {Table(T_T, TwoColumns, idx, <<>>) : idx \in IndexSeqs(MaxIdx)}
    \cup
    {tbl \in {Table(T_T, cols, idx, cons) :
                 cols \in ColumnSeqs(1) \ {<<>>}, cons \in ConstraintSeqs(1),
                 idx \in IndexSeqs(1)} : IndexesOnColumns(tbl)}
    \cup
    {OrderTable, PlainTable(N_par)}

\* generate() has listed the one table, cleared the disk and made the
\* directory; the table's pipeline starts
InitTable ==
    /\ ColumnIdle
    /\ MainIdle
    /\ LibIdle
    /\ \E tbl \in TableInputs :
          /\ catalog = Catalog(<<tbl>>, {})
          /\ tables = <<tbl.row>>
          /\ ppc = (tbl.row.table_name :> "columns")
          /\ mem = (tbl.row.table_name :> NoMem)
    /\ gpc = "pipelines"
    /\ run = 1
    /\ fsDir = TRUE
    /\ fsTables = NoFiles
    /\ fsAgg = NoAggregator
    /\ log = {}
    /\ faults = 0
    /\ hist = NewRun(NoSnapshot)

NextTable ==
    \/ (\E t \in DOMAIN ppc : ColumnsOk(t))
    \/ (\E t \in DOMAIN ppc : IndexesOk(t))
    \/ (\E t \in DOMAIN ppc : ConstraintsOk(t))
    \/ (\E t \in DOMAIN ppc : SynthesisThrows(t))
    \/ (\E t \in DOMAIN ppc : WriteOk(t))
    \/ JoinPipelines
    \/ WriteAggOk

SpecTable == InitTable /\ [][NextTable]_vars

\* main(): one call of generate(), then the exit
NextMain ==
    \/ MainStart
    \/ (ProcessRunning(exits) /\ GetTablesOk) \/ (ProcessRunning(exits) /\ GetTablesFail)
    \/ (ProcessRunning(exits) /\ PartitionOk) \/ (ProcessRunning(exits) /\ PartitionFail)
    \/ (ProcessRunning(exits) /\ RmrfOk) \/ (ProcessRunning(exits) /\ RmrfFail)
    \/ (ProcessRunning(exits) /\ RmOk) \/ (ProcessRunning(exits) /\ RmMissing)
    \/ (ProcessRunning(exits) /\ RmFail)
    \/ (ProcessRunning(exits) /\ MkdirpOk) \/ (ProcessRunning(exits) /\ MkdirpFail)
    \/ (ProcessRunning(exits) /\ \E t \in DOMAIN ppc : ColumnsOk(t))
    \/ (ProcessRunning(exits) /\ \E t \in DOMAIN ppc : ColumnsFail(t))
    \/ (ProcessRunning(exits) /\ \E t \in DOMAIN ppc : IndexesOk(t))
    \/ (ProcessRunning(exits) /\ \E t \in DOMAIN ppc : IndexesFail(t))
    \/ (ProcessRunning(exits) /\ \E t \in DOMAIN ppc : ConstraintsOk(t))
    \/ (ProcessRunning(exits) /\ \E t \in DOMAIN ppc : SynthesisThrows(t))
    \/ (ProcessRunning(exits) /\ \E t \in DOMAIN ppc : ConstraintsFail(t))
    \/ (ProcessRunning(exits) /\ \E t \in DOMAIN ppc : WriteOk(t))
    \/ (ProcessRunning(exits) /\ \E t \in DOMAIN ppc : WriteFail(t))
    \/ (ProcessRunning(exits) /\ JoinPipelines)
    \/ (ProcessRunning(exits) /\ WriteAggOk) \/ (ProcessRunning(exits) /\ WriteAggFail)
    \/ MainCatch
    \/ MainThen

SpecMain == Init /\ [][NextMain]_vars

\* lib/index.js: up to MaxCalls calls, one after the other, on a server that
\* holds some of the knexfile's databases
InitLib ==
    /\ ColumnIdle
    /\ MainIdle
    /\ GenIdle
    /\ log = {}
    /\ nodeEnv \in NodeEnvs
    /\ knexfile \in {KnexFile("pg"), KnexFile("mysql")}
    /\ dbs \in {{"postgres"}, {"postgres", "tdb"}, {"postgres", "prod", "tdb", "dev"}}
    /\ trace = <<>>
    /\ lib = NoCall

NextLib ==
    \/ Call
    \/ dropDb
    \/ dropDbKnex
    \/ createDb
    \/ recreateDb
    \/ refreshDb
    \/ copyDb
    \/ copyDbForTest
    \/ rollbackCopyDbForTest

SpecLib == InitLib /\ [][NextLib]_vars

\* the application may have given its knex with setKnex (lines 24-26)
InitAddColumn ==
    /\ ColumnIdle
    /\ MainIdle
    /\ GenIdle
    /\ log = {}
    /\ nodeEnv \in NodeEnvs
    /\ knexfile \in {KnexFile("pg"), KnexFile("mysql")}
    /\ dbs \in {{"postgres"}, {"postgres", "prod", "tdb", "dev"}}
    /\ trace = <<>>
    /\ lib \in {NoCall, [NoCall EXCEPT !.globalKnex = "tdb"]}

NextAddColumn ==
    \/ CallColumn
    \/ addColumn
    \/ updateColumnInBatch

SpecAddColumn == InitAddColumn /\ [][NextAddColumn]_vars

-----------------------------------------------------------------------------
(* Properties                                                              *)

\* the tables whose artifact singleTableGenerator has returned in this run
Generated == {t \in DOMAIN ppc : ppc[t] \in {"write", "done"}}

Range(seq) == {seq[i] : i \in 1..Len(seq)}

\* C1 (Idempotence): when generate() has resolved a second time against
\* the same catalog, the per-table artifacts and the aggregator on disk are
\* those the first resolved run left, whatever the disk held before it.
C1_Idempotence ==
    (run >= 2 /\ gpc = "resolved" /\ hist.first.valid)
        => /\ fsTables = hist.first.files
           /\ fsAgg = hist.first.agg

\* C2 (Ordinal fidelity): the column definitions of every generated
\* artifact are the catalog's columns in ascending ordinal order, one
\* definition per column.
C2_OrdinalFidelity ==
    \A t \in Generated :
        LET cols == TableOf(catalog, t).columns
            defs == mem[t].migration.columns
        IN /\ Len(defs) = Len(cols)
           /\ \A i \in 1..Len(cols) : defs[i].name = cols[i].column_name

\* the kinds getType can return
CanonicalKinds ==
    {"integer", "increments", "string", "jsonb", "timestamp", "text", "enum",
     "boolean", "float", "decimal", "specificType"}

\* C3 (Type-mapping totality): getType returns a canonical kind and does
\* not throw for a column of a supported raw type, whatever its default,
\* details and check constraint; for any other raw type it throws the
\* unsupported-type error and returns no kind.
C3_TypeMappingTotality ==
    cpc \in {"typed", "threw", "done"}
        => IF colIn.type \in SupportedTypes
           THEN ~typeOut.threw /\ typeOut.type \in CanonicalKinds
           ELSE typeOut.threw /\ typeOut.error = "invalid type" /\ typeOut.type = ""

Values_abc == <<<<Q, "a", Q>>, <<Q, "b", Q>>, <<Q, "c", Q>>>>

\* the text columns of table t that have an unconsumed check constraint
\* named t_<column>_check whose definition holds the literals 'a', 'b', 'c'
EnumCandidates(t) ==
    LET tbl == TableOf(catalog, t)
    IN {c \in Range(tbl.columns) :
            /\ c.type = "text"
            /\ \E k \in Range(tbl.constraints) :
                  /\ k.constraint_name = CheckName(t, c.column_name)
                  /\ k.constraint_type = "c"
                  /\ k.constraint_def = Def_abc
                  /\ ~k.done}

RawStatements(t, kind, name) ==
    {j \in 1..Len(mem[t].migration.extrasAfter) :
        /\ mem[t].migration.extrasAfter[j].kind = kind
        /\ mem[t].migration.extrasAfter[j].name = name}

\* C4 (Enum round-trip): a text column with an unconsumed check constraint
\* t_<column>_check that holds 'a', 'b', 'c' is rendered once, as an enum
\* with the values a, b, c in this order; the constraint is marked consumed
\* and no ALTER TABLE ... ADD CONSTRAINT statement is emitted for it.
C4_EnumRoundTrip ==
    \A t \in Generated :
        \A c \in EnumCandidates(t) :
            LET defs == mem[t].migration.columns
                own == {j \in 1..Len(defs) : defs[j].name = c.column_name}
            IN /\ Cardinality(own) = 1
               /\ \A j \in own : /\ defs[j].type = "enum"
                                 /\ defs[j].extraParams.kind = "enum"
                                 /\ defs[j].extraParams.values = Values_abc
               /\ mem[t].constraints.at[CheckName(t, c.column_name)].done
               /\ RawStatements(t, "ALTER TABLE ADD CONSTRAINT",
                                CheckName(t, c.column_name)) = {}

\* C4: a written artifact of a table with such a column
C4_Witness ==
    \E t \in DOMAIN ppc : ppc[t] = "done" /\ EnumCandidates(t) # {}

\* the enum columns of the artifact that the constraint called name belongs to
EnumColumns(t, name) ==
    {j \in 1..Len(mem[t].migration.columns) :
        /\ mem[t].migration.columns[j].type = "enum"
        /\ CheckName(t, mem[t].migration.columns[j].name) = name}

ConsumedOnce(t, name) ==
    /\ Cardinality(EnumColumns(t, name)) = 1
    /\ mem[t].constraints.at[name].done
    /\ RawStatements(t, "ALTER TABLE ADD CONSTRAINT", name) = {}

RawOnce(t, name) ==
    /\ EnumColumns(t, name) = {}
    /\ ~mem[t].constraints.at[name].done
    /\ Cardinality(RawStatements(t, "ALTER TABLE ADD CONSTRAINT", name)) = 1

CheckConstraints(t) ==
    {k.constraint_name : k \in {x \in Range(TableOf(catalog, t).constraints) :
                                    x.constraint_type = "c"}}

\* C5 (Constraint exclusivity): in every generated artifact each check
\* constraint of the table is either consumed by exactly one enum column
\* and has no raw ALTER TABLE statement, or has exactly one raw ALTER TABLE
\* statement and no enum column; never both, never neither.
C5_ConstraintExclusivity ==
    \A t \in Generated :
        \A name \in CheckConstraints(t) :
            (ConsumedOnce(t, name) /\ ~RawOnce(t, name))
            \/ (RawOnce(t, name) /\ ~ConsumedOnce(t, name))

\* C5: a written artifact with a consumed check constraint, and with a raw
\* one named by the convention for a column that is not of type text
C5_Witness ==
    \E t \in DOMAIN ppc :
        /\ ppc[t] = "done"
        /\ \/ \E n1, n2 \in CheckConstraints(t) : ConsumedOnce(t, n1) /\ RawOnce(t, n2)
           \/ \E c \in Range(TableOf(catalog, t).columns) :
                 /\ c.type # "text"
                 /\ ~c.defaultValue.isNull
                 /\ CheckName(t, c.column_name) \in CheckConstraints(t)
                 /\ RawOnce(t, CheckName(t, c.column_name))

\* C6 (Default-drop safety): for a numeric column whose default is not null,
\* not a quoted literal and not a number, the column is generated, a
\* default-value warning is logged for it, and it has no defaultTo marker.
C6_DefaultDropSafety ==
    (/\ cpc \in {"threw", "done"}
     /\ colIn.type = "numeric"
     /\ ~colIn.defaultValue.isNull
     /\ QuotedEnd(colIn.defaultValue.text) = 0
     /\ NumberOf(colIn.defaultValue.text).nan)
        => /\ cpc = "done"
           /\ DefaultWarning(colIn) \in log
           /\ defOut.marker.kind = "none"

\* the tables that are the parent or the child of a row of pg_inherits
InPartition(cat) == {pair[1] : pair \in cat.inherits} \cup {pair[2] : pair \in cat.inherits}

\* C7 (Partition exclusion): no artifact is written for a table that is the
\* parent or the child of a partition relation, and the aggregator a run
\* writes does not list it; when the run has resolved, every other table
\* that is not a bookkeeping table has its artifact and is listed.
C7_PartitionExclusion ==
    /\ \A t \in TableNames(catalog) \cap InPartition(catalog) :
          /\ t \notin hist.written
          /\ hist.aggWrites > 0 => t \notin Range(fsAgg.tables)
    /\ gpc = "resolved" =>
          \A t \in TableNames(catalog) \ (InPartition(catalog) \cup tablesToIgnore) :
              /\ t \in hist.written
              /\ t \in Range(fsAgg.tables)

\* the column definitions that carry the modifier of the index called name
AsModifier(t, name) ==
    {j \in 1..Len(mem[t].migration.columns) :
        /\ mem[t].columnsInfo.at[mem[t].migration.columns[j].name].index.present
        /\ mem[t].columnsInfo.at[mem[t].migration.columns[j].name].index.index_name = name
        /\ \/ mem[t].migration.columns[j].primary
           \/ mem[t].migration.columns[j].indexed # ""}

AsComposite(t, name) ==
    {j \in 1..Len(mem[t].migration.indexes) : mem[t].migration.indexes[j].index_name = name}

\* C8 (Index single/multiple partition): every index row of a table is
\* rendered exactly once in the generated artifact: as one column's
\* primary/unique/index modifier, as one composite statement, or as one raw
\* CREATE INDEX statement.
C8_IndexPartition ==
    \A t \in Generated :
        \A r \in Range(TableOf(catalog, t).indexes) :
            Cardinality(AsModifier(t, r.index_name))
            + Cardinality(AsComposite(t, r.index_name))
            + Cardinality(RawStatements(t, "CREATE INDEX USING GIN", r.index_name)) = 1

\* C9 (Scenario Order): the artifact of table Order renders id as
\* increments, status as a not-nullable enum of new and paid, total as a
\* not-nullable decimal of precision 10 whose default is the number 0, and
\* one table.unique on [status, total].
C9_ScenarioOrder ==
    (N_Order \in Generated /\ TableOf(catalog, N_Order) = OrderTable)
        => LET a == mem[N_Order].migration
           IN /\ Len(a.columns) = 3
              /\ a.columns[1].name = C_id /\ a.columns[1].type = "increments"
              /\ a.columns[2].name = C_status /\ a.columns[2].type = "enum"
              /\ a.columns[2].extraParams.values
                    = <<<<Q, "n", "e", "w", Q>>, <<Q, "p", "a", "i", "d", Q>>>>
              /\ a.columns[2].nullable = "notNullable"
              /\ a.columns[3].name = C_total /\ a.columns[3].type = "decimal"
              /\ a.columns[3].extraParams.kind = "precision"
              /\ a.columns[3].extraParams.num = 10
              /\ a.columns[3].nullable = "notNullable"
              /\ a.columns[3].defaultTo.kind = "number"
              /\ a.columns[3].defaultTo.num = 0
              /\ Len(a.indexes) = 1
              /\ a.indexes[1].kind = "unique"
              /\ a.indexes[1].columns = <<C_status, C_total>>

GinIndexes(t) ==
    {r \in Range(TableOf(catalog, t).indexes) : r.index_type = "gin"}

\* C11 (GIN indexes are always raw): every gin index of a table is rendered
\* as one raw CREATE INDEX ... USING GIN statement and never as a column
\* modifier or as a composite statement.
C11_GinAlwaysRaw ==
    \A t \in Generated :
        \A r \in GinIndexes(t) :
            /\ Cardinality(RawStatements(t, "CREATE INDEX USING GIN", r.index_name)) = 1
            /\ AsModifier(t, r.index_name) = {}
            /\ AsComposite(t, r.index_name) = {}

ClearFailures == {<<"rmrf", NoTable>>, <<"rm", NoTable>>}

\* C12 (Output lifecycle): an artifact of a run is written only when the
\* old tables directory and the old aggregator have been deleted; when the
\* run has resolved, the tables directory holds the artifacts of the run's
\* tables and no other.
C12_OutputLifecycle ==
    /\ hist.written # {} => hist.failures \cap ClearFailures = {}
    /\ gpc = "resolved" => DOMAIN fsTables = RunTables

FileSystemOps == {"rmrf", "rm", "mkdirp", "write", "writeAggregator"}

\* C13 (Output-write errors are fatal): when clearing the old directory or
\* the old aggregator, making the directory, or writing an artifact or the
\* aggregator has failed in a run, generate() has rejected; it does not go
\* on, and does not resolve.
C13_OutputErrorsFatal ==
    (\E f \in hist.failures : f[1] \in FileSystemOps) => gpc = "rejected"

CatalogOps == {"getColumns", "getIndexes", "getConstraints"}

\* C14 (Catalog failure gives no partial output): when the column, index
\* or constraint query of a table has failed in a run, no artifact is
\* written for that table in the run, and generate() has rejected.
C14_NoPartialOutput ==
    \A f \in hist.failures :
        f[1] \in CatalogOps => f[2] \notin hist.written /\ gpc = "rejected"

\* C14: a catalog query of one table failed, the other pipeline has ended
\* with its artifact written
C14_Witness ==
    /\ \E f \in hist.failures : f[1] \in CatalogOps
    /\ hist.written # {}
    /\ Quiescent

\* C16 (Bookkeeping tables are excluded): no artifact is written for
\* knex_migrations or knex_migrations_lock and the aggregator a run writes
\* does not list them; a table whose name only contains one of these names
\* has its artifact and is listed when the run has resolved.
C16_BookkeepingExcluded ==
    /\ \A t \in TableNames(catalog) \cap {N_km, N_kml} :
          /\ t \notin hist.written
          /\ hist.aggWrites > 0 => t \notin Range(fsAgg.tables)
    /\ gpc = "resolved" =>
          \A t \in TableNames(catalog) \ ({N_km, N_kml} \cup InPartition(catalog)) :
              (\E n \in {N_km, N_kml} : Contains(t, n))
                  => t \in hist.written /\ t \in Range(fsAgg.tables)

\* C16: a resolved run over a catalog with a bookkeeping table and a table
\* whose name contains its name
C16_Witness ==
    /\ gpc = "resolved"
    /\ hist.aggWrites = 1
    /\ N_km_old \in TableNames(catalog)
    /\ TableNames(catalog) \cap {N_km, N_kml} # {}

OtherConstraints(t) ==
    {k.constraint_name : k \in {x \in Range(TableOf(catalog, t).constraints) :
                                    x.constraint_type # "c"}}

\* C17 (Non-check constraints are never applied): in every generated
\* artifact a constraint whose type is not check is logged as unsupported,
\* has no raw ALTER TABLE statement and is consumed by no enum column.
C17_NonCheckNeverApplied ==
    \A t \in Generated :
        \A name \in OtherConstraints(t) :
            /\ [kind |-> "unknown-constraint-type", table |-> t, column |-> name] \in log
            /\ RawStatements(t, "ALTER TABLE ADD CONSTRAINT", name) = {}
            /\ EnumColumns(t, name) = {}
            /\ ~mem[t].constraints.at[name].done

\* the single-column primary index attached to a column of table t, if any
AttachedPrimary(t, columnName) ==
    /\ mem[t].columnsInfo.at[columnName].index.present
    /\ mem[t].columnsInfo.at[columnName].index.single
    /\ mem[t].columnsInfo.at[columnName].index.is_primary

CatalogNullable(t, columnName) ==
    \E c \in Range(TableOf(catalog, t).columns) : c.column_name = columnName /\ c.nullable

\* C20 (Nullability marker): a rendered column has no nullability marker
\* exactly when a single-column primary index is attached to it, .nullable()
\* exactly when none is attached and the catalog marks it nullable, and
\* .notNullable() in every other case; a column with the primary marker has
\* no .unique() and no .index().
C20_NullabilityMarker ==
    \A t \in Generated :
        \A j \in 1..Len(mem[t].migration.columns) :
            LET d == mem[t].migration.columns[j]
            IN /\ d.nullable \in {"", "nullable", "notNullable"}
               /\ d.nullable = "" <=> AttachedPrimary(t, d.name)
               /\ d.nullable = "nullable"
                     <=> (~AttachedPrimary(t, d.name) /\ CatalogNullable(t, d.name))
               /\ d.primary <=> AttachedPrimary(t, d.name)
               /\ d.primary => d.indexed = ""

\* C20: an artifact with a column that has an attached primary index and a
\* nullable column that has a unique or plain index
C20_Witness ==
    \E t \in Generated :
        \E i, j \in 1..Len(mem[t].migration.columns) :
            /\ AttachedPrimary(t, mem[t].migration.columns[i].name)
            /\ mem[t].migration.columns[j].nullable = "nullable"
            /\ mem[t].migration.columns[j].indexed # ""

Kinds == {trace[i].kind : i \in 1..Len(trace)}

\* C18: a createDb(env) on a Postgres config that returned issued CREATE
\* DATABASE if and only if its existence query found no row, and ran the
\* migrations if and only if migrate was true; after calls of createDb(env)
\* alone, the last of which returned, the database of env exists and CREATE
\* DATABASE was issued at most once.
C18_CreateIfAbsent ==
    (lib.stack = <<>> /\ lib.call.fn = "createDb" /\ lib.outcome = "returned"
        /\ knexfile[lib.call.env].client = "pg")
    => /\ "CREATE" \in Kinds <=> ~lib.found
       /\ "MIGRATE" \in Kinds <=> lib.call.migrate
       /\ lib.only = <<"createDb", lib.call.env>>
            => /\ KnexFile("pg")[lib.call.env].database \in dbs
               /\ lib.creates <= 1

\* the calls C19 is about: the five guarded functions and the two that start
\* with dropDb when NODE_ENV is 'production', the latter three for the env
\* argument 'production' too
MustRefuse ==
    \/ /\ nodeEnv = "production"
       /\ lib.call.fn \in {"dropDb", "dropDbKnex", "copyDb", "copyDbForTest",
                           "rollbackCopyDbForTest", "recreateDb", "refreshDb"}
    \/ /\ lib.call.env = "production"
       /\ lib.call.fn \in {"dropDb", "recreateDb", "refreshDb"}

\* C19: a call that the production guard covers never returns and never gets
\* to a statement or a destroy(): it throws with nothing issued; and no DROP
\* DATABASE is issued while NODE_ENV is 'production'.
C19_ProductionGuard ==
    /\ MustRefuse => trace = <<>> /\ lib.outcome # "returned"
    /\ (MustRefuse /\ lib.stack = <<>>) => lib.outcome = "threw"
    /\ nodeEnv = "production" => "DROP" \notin Kinds

\* C19: dropDb('test') was called with NODE_ENV 'production' on a server that
\* has the test database, and threw
C19_Witness ==
    /\ nodeEnv = "production"
    /\ lib.call.fn = "dropDb"
    /\ lib.call.env = "test"
    /\ "tdb" \in dbs
    /\ lib.outcome = "threw"

\* C21: a column of raw type integer or numeric whose raw default is an
\* unquoted number n (digits only, so not a nextval default) is rendered with
\* the default marker defaultTo(n), for both raw types alike.
C21_NumericDefaults ==
    (/\ cpc = "done"
     /\ colIn.type \in {"integer", "numeric"}
     /\ ~colIn.defaultValue.isNull
     /\ AllDigits(colIn.defaultValue.text))
        => /\ defOut.marker.kind = "number"
           /\ defOut.marker.num = TextToNat(colIn.defaultValue.text)

\* the kinds whose unquoted default the claims C21 and C23 are about
ParsedKinds == {"increments", "integer", "decimal", "boolean"}

\* C22: a column of any other canonical kind whose raw default is not null
\* and not a quoted literal is rendered without a default marker, a warning
\* naming its table and column is logged, and generation goes on.
C22_UnsupportedDefaultWarned ==
    (/\ cpc \in {"threw", "done"}
     /\ ~typeOut.threw
     /\ typeOut.type \notin ParsedKinds
     /\ ~colIn.defaultValue.isNull
     /\ QuotedEnd(colIn.defaultValue.text) = 0)
        => /\ cpc = "done"
           /\ defOut.marker.kind = "none"
           /\ DefaultWarning(colIn) \in log

\* the first seven characters of the text are n, e, x, t, v, a, l
BeginsNextval(def) ==
    /\ ~def.isNull
    /\ Len(def.text) >= 7
    /\ SubSeq(def.text, 1, 7) = <<"n", "e", "x", "t", "v", "a", "l">>

\* C23: an integer column whose raw default starts with nextval is rendered
\* with kind increments and without a default marker, whatever follows
\* nextval; an integer column with any other default, or none, is rendered
\* with kind integer; neither makes getType or defaults throw.
C23_AutoIncrement ==
    colIn.type = "integer"
        => /\ cpc # "threw"
           /\ cpc \in {"typed", "done"}
                => IF BeginsNextval(colIn.defaultValue)
                   THEN /\ typeOut.type = "increments"
                        /\ cpc = "done" => defOut.marker.kind = "none"
                   ELSE typeOut.type = "integer"

\* C23: an integer column with the default nextval('s'::regclass), which
\* holds a quoted literal and a cast after nextval, has been rendered
C23_Witness ==
    /\ cpc = "done"
    /\ colIn.type = "integer"
    /\ colIn.defaultValue = Default(D_nextval_cast)
    /\ typeOut.type = "increments"

\* the single-quoted literals of a text, from left to right: each runs from
\* a quote to the next quote, whatever characters lie between
RECURSIVE QuotedLiterals(_, _)
QuotedLiterals(s, i) ==
    IF i > Len(s) THEN <<>>
    ELSE IF s[i] # Q THEN QuotedLiterals(s, i + 1)
    ELSE IF FirstIndexFrom(s, Q, i + 1) = 0 THEN <<>>
    ELSE <<SubSeq(s, i, FirstIndexFrom(s, Q, i + 1))>>
         \o QuotedLiterals(s, FirstIndexFrom(s, Q, i + 1) + 1)

\* C24: for a text column with a convention-named constraint, getType does
\* not throw, whatever the definition holds; when it consumes the constraint
\* the enum's values are the quoted literals of the definition, all of them
\* and in their order.
C24_EnumValuesAllLiterals ==
    (/\ cpc \in {"typed", "threw", "done"}
     /\ colIn.type = "text"
     /\ colIn.constraintCheck.present)
        => /\ ~typeOut.threw
           /\ typeOut.consumed
                => typeOut.extraParams.values
                      = QuotedLiterals(colIn.constraintCheck.constraint_def, 1)

\* the positions of the USER-DEFINED columns of table t whose type is citext,
\* and of those of another type
CitextColumns(t) ==
    {i \in 1..Len(TableOf(catalog, t).columns) :
        /\ TableOf(catalog, t).columns[i].type = "USER-DEFINED"
        /\ TableOf(catalog, t).columns[i].udt_name = "citext"}

OtherUdtColumns(t) ==
    {i \in 1..Len(TableOf(catalog, t).columns) :
        /\ TableOf(catalog, t).columns[i].type = "USER-DEFINED"
        /\ TableOf(catalog, t).columns[i].udt_name # "citext"}

\* C25: the artifact of a table holds CREATE EXTENSION IF NOT EXISTS CITEXT
\* once, before createTable, when the table has a citext column, however
\* many it has, and nowhere otherwise; a USER-DEFINED column of another type
\* is rendered as a specificType column of that type with a warning, and a
\* table of USER-DEFINED columns alone never fails.
C25_ExtensionOnce ==
    /\ \A t \in Generated :
          /\ mem[t].migration.extrasBefore
                = IF CitextColumns(t) # {} THEN <<"CREATE EXTENSION IF NOT EXISTS CITEXT">>
                  ELSE <<>>
          /\ \A j \in 1..Len(mem[t].migration.extrasAfter) :
                mem[t].migration.extrasAfter[j].kind
                   \in {"ALTER TABLE ADD CONSTRAINT", "CREATE INDEX USING GIN"}
          /\ \A i \in OtherUdtColumns(t) :
                /\ \E j \in 1..Len(mem[t].migration.columns) :
                      /\ mem[t].migration.columns[j].name
                            = TableOf(catalog, t).columns[i].column_name
                      /\ mem[t].migration.columns[j].type = "specificType"
                      /\ mem[t].migration.columns[j].extraParams.udt
                            = TableOf(catalog, t).columns[i].udt_name
                /\ [kind |-> "unknown-udt", table |-> t,
                    column |-> TableOf(catalog, t).columns[i].column_name] \in log
    /\ \A t \in DOMAIN ppc :
          (/\ CitextColumns(t) \cup OtherUdtColumns(t)
                 = 1..Len(TableOf(catalog, t).columns)
           /\ TableOf(catalog, t).constraints = <<>>)
             => ppc[t] # "failed"

\* C25: the artifact of a table with two citext columns has been written
C25_Witness ==
    \E t \in DOMAIN ppc : ppc[t] = "done" /\ Cardinality(CitextColumns(t)) >= 2

\* what the pipeline of table t computes when t is processed alone: the
\* columns, the columns and indexes after the classification of the indexes,
\* and what singleTableGenerator returns
AloneColumns(t) == getColumns(t, TableOf(catalog, t).columns)

AloneIndexed(t) ==
    ClassifyIndexes(TableOf(catalog, t).indexes,
                    [columnsInfo |-> AloneColumns(t), indexes |-> <<>>, logged |-> {}])

AloneSynthesized(t) ==
    singleTableGenerator(
        TableObject(catalog, t,
                    [NoMem EXCEPT !.indexes = AloneIndexed(t).indexes,
                                  !.constraints = KeyedByName(TableOf(catalog, t).constraints)]),
        AloneIndexed(t).columnsInfo)

\* C26: under every interleaving of the pipelines, what a pipeline holds at
\* each of its stages (columns, indexes, constraints with their consumed
\* flags, artifact) and the file it has written are what the table yields
\* when it is processed alone: no other pipeline has changed them.
C26_PipelineIsolation ==
    \A t \in DOMAIN ppc :
        /\ ppc[t] \in {"idle", "columns"} => mem[t] = NoMem
        /\ ppc[t] = "indexes"
              => mem[t] = [NoMem EXCEPT !.columnsInfo = AloneColumns(t)]
        /\ ppc[t] = "constraints"
              => mem[t] = [NoMem EXCEPT !.columnsInfo = AloneIndexed(t).columnsInfo,
                                        !.indexes = AloneIndexed(t).indexes]
        /\ ppc[t] \in {"write", "done"}
              => /\ mem[t].migration = AloneSynthesized(t).artifact
                 /\ mem[t].constraints = AloneSynthesized(t).constraints
                 /\ mem[t].indexes = AloneIndexed(t).indexes
        /\ ppc[t] = "done"
              => /\ t \in DOMAIN fsTables
                 /\ fsTables[t] = AloneSynthesized(t).artifact

\* C26: the pipeline of a table with a check constraint has written its
\* artifact while the pipeline of another table has not yet read its
\* constraints
C26_Witness ==
    \E t, u \in DOMAIN ppc :
        /\ t # u
        /\ ppc[t] = "done"
        /\ TableOf(catalog, t).constraints # <<>>
        /\ ppc[u] = "constraints"

\* the statements of trace, in the order they were issued
StatementKinds == [i \in 1..Len(trace) |-> trace[i].kind]

\* the statements addColumn is to issue for the given options
AddColumnOrder(o) ==
    <<"ADD COLUMN NULLABLE", "SET DEFAULT", "UPDATE", "SET NOT NULL">>
    \o (IF ~o.index THEN <<>>
        ELSE IF o.indexConcurrent THEN <<"CREATE INDEX CONCURRENTLY">>
        ELSE <<"CREATE INDEX">>)

\* C27: at every moment of a call of addColumn the statements issued are a
\* prefix of add-nullable, set default, update, set NOT NULL and, if index is
\* true, create index; each was issued after all the earlier ones had
\* succeeded (so NOT NULL only after the update completed), a failed
\* statement is the last one and the call has thrown, and a call that
\* returned has issued them all.
C27_AddColumnOrder ==
    lib.call.fn = "addColumn"
    => /\ Len(trace) <= Len(AddColumnOrder(lib.opts))
       /\ StatementKinds = SubSeq(AddColumnOrder(lib.opts), 1, Len(trace))
       /\ \A i \in 1..Len(trace) :
             ~trace[i].ok => i = Len(trace) /\ lib.outcome = "threw"
       /\ lib.outcome = "returned" => Len(trace) = Len(AddColumnOrder(lib.opts))

\* C27: addColumn, called with index true, has returned after its five
\* statements
C27_Witness ==
    /\ lib.call.fn = "addColumn"
    /\ lib.outcome = "returned"
    /\ lib.opts.index
    /\ Len(trace) = 5

\* the original database of the rollback in progress: the one given, or the
\* one of NODE_ENV || 'test'
RollbackOriginal == OriginalDb(lib.call.originalDb)

\* C28: during and after a call of rollbackCopyDbForTest, every statement
\* names the database of the given knex, every destroy is of the given knex
\* or of the temporary knex on 'postgres', neither is on the original
\* database, and there is one only when the database of the given knex
\* differs from the original one; with the knex on the
\* original database the call returns the given knex and has issued nothing;
\* with 'postgres' as the original database the call throws and has issued
\* nothing; a call that rolled back has dropped the database of the knex and
\* returns a knex on the original database.
C28_RollbackKeepsOriginal ==
    lib.call.fn = "rollbackCopyDbForTest"
    => /\ \A i \in 1..Len(trace) :
             /\ lib.call.knex # RollbackOriginal
             /\ trace[i].db # RollbackOriginal
             /\ IF trace[i].kind = "destroy"
                THEN trace[i].db \in {lib.call.knex, "postgres"}
                ELSE trace[i].db = lib.call.knex
       /\ (lib.call.knex # NoKnex /\ lib.call.knex = RollbackOriginal)
             => /\ trace = <<>>
                /\ lib.stack = <<>> => \/ lib.outcome = "returned" /\ lib.ret = lib.call.knex
                                       \/ lib.outcome = "threw" /\ InProduction(nodeEnv)
       /\ RollbackOriginal = "postgres"
             => /\ trace = <<>>
                /\ lib.stack = <<>> => lib.outcome = "threw"
       /\ (lib.outcome = "returned" /\ lib.call.knex # RollbackOriginal)
             => /\ lib.ret = RollbackOriginal
                /\ \E i \in 1..Len(trace) : trace[i].kind = "DROP" /\ trace[i].ok
                /\ lib.call.knex \notin dbs
                /\ RollbackOriginal \notin {"", "postgres"}

\* C28: a rollback from a copy has returned with the copy dropped while the
\* original database is still on the server
C28_Witness ==
    /\ lib.call.fn = "rollbackCopyDbForTest"
    /\ lib.outcome = "returned"
    /\ lib.call.knex = "copy1"
    /\ RollbackOriginal = "tdb"
    /\ "tdb" \in dbs
    /\ \E i \in 1..Len(trace) : trace[i].kind = "DROP" /\ trace[i].ok

\* C29: when the first call made, a createDb or a dropDb, has ended, by
\* returning or by throwing, the knexfile config holds for every env the
\* database it held before the call.
C29_ConfigRestored ==
    (lib.calls = 1 /\ lib.call.fn \in {"createDb", "dropDb"} /\ lib.stack = <<>>)
    => knexfile = KnexFile(knexfile["production"].client)

====
